---- MODULE Spec2Model ----
(***************************************************************************)
(* Verification model of the chess analysis core:                         *)
(*   - the Engine Session (StockfishEngine) in its two revisions with a    *)
(*     busy flag: the queueing revision (src/js/stockfishEngine.js) and    *)
(*     the busy-rejecting revision (src/unnamed/part_004);                 *)
(*   - the Analysis Orchestrator (MoveAnalyzer) in its three revisions     *)
(*     (src/js/moveAnalyzer.js, src/unnamed/part_000, src/unnamed/part_006)*)
(* JavaScript runs handlers to completion: one action is one macrotask     *)
(* together with the promise continuations (microtasks) it triggers.       *)
(***************************************************************************)
EXTENDS Integers, Sequences, FiniteSets, TLC

\* ------------------------------------------------------------------ bounds
\* number of analyze() calls made on the Engine Session in one run
MaxReq == 3
\* number of stop() calls in one run
MaxStop == 1
\* number of plies of the longest game
MaxPlies == 2
\* CONFIG.PERFORMANCE.CACHE_MAX_SIZE, which is 1000 in src/js/config.js, scaled
\* down so that the games of the model can overfill the cache
CACHE_MAX_SIZE == 2

\* ------------------------------------------------------------------ constants
\* the turns of the js revision's wait for a busy engine
WAIT_ATTEMPTS == 10
\* safeAnalyze(fen, depth, retries = 2)
RETRIES == 2

ReqId == 1..MaxReq

\* ------------------------------------------------------------------ state
VARIABLES
  engineRev,    \* "queue": src/js/stockfishEngine.js; "reject": part_004
  initCalled,   \* StockfishEngine.init() has run
  worker,       \* this.worker is non-null
  ready,        \* this.ready
  busy,         \* this.busy
  queue,        \* this.queue: the tasks (request ids) waiting, oldest first
  onmessage,    \* this.worker.onmessage: "null", "init" or "handler"
  handlerReq,   \* the request whose handler closure is installed (0: none)
  timers,       \* requests whose setTimeout(TIMEOUT_MS) is armed
  pqTimers,     \* pending setTimeout(() => this.processQueue(), 50) callbacks
  promise,      \* per request: "none", "pending", "resolved" or the rejection
  nreq,         \* analyze() calls made so far; call k is request k
  posted,       \* every command given to worker.postMessage, in order
  answered,     \* number of go commands the engine has answered by bestmove
  readyokSent,  \* the engine has emitted readyok
  nstop         \* stop() calls made so far

engineVars == <<engineRev, initCalled, worker, ready, busy, queue, onmessage,
                handlerReq, timers, pqTimers, promise, nreq, posted, answered,
                readyokSent, nstop>>

\* the Analysis Orchestrator and the game state it works on
VARIABLES
  analyzerRev,     \* "js": src/js/moveAnalyzer.js; "p000": part_000; "p006": part_006
  moveHistory,     \* STATE.moveHistory
  analysisData,    \* STATE.analysisData, by 0-based move index
  analysisCache,   \* MoveAnalyzer.analysisCache: entries in insertion order
  pendingAnalysis, \* MoveAnalyzer.pendingAnalysis (part_006 only)
  calls,           \* the activations of analyzeSingleMove, by caller
  batch,           \* the activation of analyzeAllMoves: position and index i
  isAnalyzing,     \* STATE.isAnalyzing (and this.isAnalyzing, set together)
  dropTimers,      \* pending setTimeout(..., 100) callbacks of onDrop
  last,            \* history: how the activation ended that ended in the last step
  prior            \* history: per move, what the last completed call returned

analyzerVars == <<analyzerRev, moveHistory, analysisData, analysisCache,
                  pendingAnalysis, calls, batch, isAnalyzing, dropTimers,
                  last, prior>>

\* the pure functions of the Move Classifier, applied on their own
VARIABLES
  input,    \* the arguments of the call
  output    \* what the call returned; NoResult before the call

calcVars == <<input, output>>

vars == <<engineVars, analyzerVars, calcVars>>

\* ------------------------------------------------------------------ commands
Cmd(name, r) == [cmd |-> name, req |-> r]

\* init(): uci, the setoption commands (one more in part_004), isready
InitCommands ==
  <<Cmd("uci", 0), Cmd("setoption Hash", 0), Cmd("setoption Threads", 0),
    Cmd("setoption Skill Level", 0), Cmd("setoption MultiPV", 0)>>
  \o (IF engineRev = "reject" THEN <<Cmd("setoption UCI_LimitStrength", 0)>>
      ELSE <<>>)
  \o <<Cmd("isready", 0)>>

\* the commands of one request with the search started before the position is set
MutAnalysisCommandsGoFirst(r) ==
  <<Cmd("ucinewgame", r), Cmd("go", r), Cmd("position", r)>>

\* the three commands of one request
AnalysisCommands(r) ==
  <<Cmd("ucinewgame", r), Cmd("position", r), Cmd("go", r)>>

IsGo(c) == c.cmd = "go"

\* the requests whose go command was posted, in posting order
GoOrder == SelectSeq(posted, IsGo)

\* the searches the engine has been asked for and not yet answered
PendingSearches == SubSeq(GoOrder, answered + 1, Len(GoOrder))

Started == {GoOrder[i].req : i \in 1..Len(GoOrder)}

\* requests whose commands were sent and whose promise is not settled
InFlight == {r \in Started : promise[r] = "pending"}

Settled(r) == promise[r] \notin {"none", "pending"}

\* ------------------------------------------------------------------ init
EngineInit ==
  /\ engineRev \in {"queue", "reject"}
  /\ initCalled = FALSE
  /\ worker = FALSE
  /\ ready = FALSE
  /\ busy = FALSE
  /\ queue = <<>>
  /\ onmessage = "null"
  /\ handlerReq = 0
  /\ timers = {}
  /\ pqTimers = 0
  /\ promise = [r \in ReqId |-> "none"]
  /\ nreq = 0
  /\ posted = <<>>
  /\ answered = 0
  /\ readyokSent = FALSE
  /\ nstop = 0

\* StockfishEngine.init(): creates the worker, installs the readyok handler
\* and posts the configuration; a throw in the try block leaves worker null.
init ==
  /\ ~initCalled
  /\ initCalled' = TRUE
  /\ \/ /\ worker' = TRUE
        /\ onmessage' = "init"
        /\ posted' = posted \o InitCommands
     \/ UNCHANGED <<worker, onmessage, posted>>
  /\ UNCHANGED <<engineRev, ready, busy, queue, handlerReq, timers, pqTimers,
                 promise, nreq, answered, readyokSent, nstop>>
  /\ UNCHANGED <<analyzerVars, calcVars>>

\* ------------------------------------------------------------------ requests
\* runAnalysis(fen, depth) up to its return (and the body of analyzeMultiPV
\* after its checks): arm the timeout, install this request's handler, post
\* the three commands.
runAnalysis(t) ==
  /\ timers' = timers \cup {t}
  /\ onmessage' = "handler"
  /\ handlerReq' = t
  /\ posted' = posted \o AnalysisCommands(t)

\* processQueue() without its busy test
MutProcessQueueNoBusyTest(qu) ==
  IF qu = <<>>
    THEN /\ queue' = qu
         /\ UNCHANGED <<busy, timers, onmessage, handlerReq, posted>>
    ELSE /\ busy' = TRUE
         /\ queue' = Tail(qu)
         /\ runAnalysis(Head(qu))

\* processQueue() taking the newest task (pop) instead of the oldest (shift)
MutProcessQueuePop(qu) ==
  IF busy \/ qu = <<>>
    THEN /\ queue' = qu
         /\ UNCHANGED <<busy, timers, onmessage, handlerReq, posted>>
    ELSE /\ busy' = TRUE
         /\ queue' = SubSeq(qu, 1, Len(qu) - 1)
         /\ runAnalysis(qu[Len(qu)])

\* processQueue() on the queue value qu, up to its await: nothing when busy
\* or empty, else set busy, shift the oldest task and run it.
processQueue(qu) ==
  IF busy \/ qu = <<>>
    THEN /\ queue' = qu
         /\ UNCHANGED <<busy, timers, onmessage, handlerReq, posted>>
    ELSE /\ busy' = TRUE
         /\ queue' = Tail(qu)
         /\ runAnalysis(Head(qu))

\* The continuation of processQueue() after its await (a microtask of the
\* macrotask that settled runAnalysis): settle the task's promise, clear
\* busy, and schedule the next dequeue in 50 ms when tasks are waiting.
processQueueResume(t, outcome) ==
  /\ promise' = [promise EXCEPT ![t] = outcome]
  /\ busy' = FALSE
  /\ pqTimers' = IF queue # <<>> THEN pqTimers + 1 ELSE pqTimers

\* analyze() testing only this.worker, not this.ready
MutAnalyzeNoReadyTest ==
  /\ engineRev = "queue"
  /\ nreq < MaxReq
  /\ nreq' = nreq + 1
  /\ IF ~worker
       THEN /\ promise' = [promise EXCEPT ![nreq + 1] = "Engine not ready"]
            /\ UNCHANGED <<busy, queue, timers, onmessage, handlerReq, posted>>
       ELSE /\ promise' = [promise EXCEPT ![nreq + 1] = "pending"]
            /\ processQueue(Append(queue, nreq + 1))
  /\ UNCHANGED <<engineRev, initCalled, worker, ready, pqTimers, answered,
                 readyokSent, nstop>>
  /\ UNCHANGED <<analyzerVars, calcVars>>

\* analyze(fen, depth) of the queueing revision
analyze ==
  /\ engineRev = "queue"
  /\ nreq < MaxReq
  /\ nreq' = nreq + 1
  /\ IF ~worker \/ ~ready
       THEN /\ promise' = [promise EXCEPT ![nreq + 1] = "Engine not ready"]
            /\ UNCHANGED <<busy, queue, timers, onmessage, handlerReq, posted>>
       ELSE /\ promise' = [promise EXCEPT ![nreq + 1] = "pending"]
            /\ processQueue(Append(queue, nreq + 1))
  /\ UNCHANGED <<engineRev, initCalled, worker, ready, pqTimers, answered,
                 readyokSent, nstop>>
  /\ UNCHANGED <<analyzerVars, calcVars>>

\* analyzeMultiPV(fen, depth) of the busy-rejecting revision (analyze() of
\* that revision only maps its result)
analyzeMultiPV ==
  /\ engineRev = "reject"
  /\ nreq < MaxReq
  /\ nreq' = nreq + 1
  /\ IF ~worker \/ ~ready
       THEN /\ promise' = [promise EXCEPT ![nreq + 1] = "Engine not ready"]
            /\ UNCHANGED <<busy, timers, onmessage, handlerReq, posted>>
       ELSE IF busy
         THEN /\ promise' = [promise EXCEPT ![nreq + 1] = "Engine busy"]
              /\ UNCHANGED <<busy, timers, onmessage, handlerReq, posted>>
         ELSE /\ promise' = [promise EXCEPT ![nreq + 1] = "pending"]
              /\ busy' = TRUE
              /\ runAnalysis(nreq + 1)
  /\ UNCHANGED <<engineRev, initCalled, worker, ready, queue, pqTimers,
                 answered, readyokSent, nstop>>
  /\ UNCHANGED <<analyzerVars, calcVars>>

\* the setTimeout(() => this.processQueue(), 50) callback
processQueueTimer ==
  /\ engineRev = "queue"
  /\ pqTimers > 0
  /\ pqTimers' = pqTimers - 1
  /\ processQueue(queue)
  /\ UNCHANGED <<engineRev, initCalled, worker, ready, promise, nreq,
                 answered, readyokSent, nstop>>
  /\ UNCHANGED <<analyzerVars, calcVars>>

\* a timeout callback that rejects the request and leaves busy set
MutTimeoutKeepsBusy(t) ==
  /\ t \in timers
  /\ timers' = timers \ {t}
  /\ promise' = [promise EXCEPT
                    ![t] = IF @ = "pending" THEN "Analysis timeout" ELSE @]
  /\ UNCHANGED <<engineRev, initCalled, worker, ready, busy, queue, onmessage,
                 handlerReq, pqTimers, nreq, posted, answered, readyokSent,
                 nstop>>
  /\ UNCHANGED <<analyzerVars, calcVars>>

\* the setTimeout(..., CONFIG.ENGINE.TIMEOUT_MS) callback of request t
timeout(t) ==
  /\ t \in timers
  /\ timers' = timers \ {t}
  /\ IF engineRev = "queue"
       THEN \* reject('Analysis timeout') of runAnalysis; the handler stays
            /\ IF promise[t] = "pending"
                 THEN processQueueResume(t, "Analysis timeout")
                 ELSE UNCHANGED <<promise, busy, pqTimers>>
            /\ UNCHANGED <<onmessage, handlerReq>>
       ELSE /\ busy' = FALSE
            /\ onmessage' = "null"
            /\ handlerReq' = 0
            /\ promise' = [promise EXCEPT
                              ![t] = IF @ = "pending" THEN "Analysis timeout" ELSE @]
            /\ UNCHANGED pqTimers
  /\ UNCHANGED <<engineRev, initCalled, worker, ready, queue, nreq, posted,
                 answered, readyokSent, nstop>>
  /\ UNCHANGED <<analyzerVars, calcVars>>

\* ------------------------------------------------------------------ engine output
\* the worker emits readyok in answer to isready; the line goes to whatever
\* handler is installed, and the init handler sets ready
engineReadyok ==
  /\ worker
  /\ ~readyokSent
  /\ readyokSent' = TRUE
  /\ ready' = IF onmessage = "init" THEN TRUE ELSE ready
  /\ UNCHANGED <<engineRev, initCalled, worker, busy, queue, onmessage,
                 handlerReq, timers, pqTimers, promise, nreq, posted, answered,
                 nstop>>
  /\ UNCHANGED <<analyzerVars, calcVars>>

\* the handler installed by request t receives a line starting with bestmove
handleBestmove(t) ==
  /\ timers' = timers \ {t}
  /\ onmessage' = "null"
  /\ handlerReq' = 0
  /\ IF engineRev = "queue"
       THEN IF promise[t] = "pending"
              THEN processQueueResume(t, "resolved")
              ELSE UNCHANGED <<promise, busy, pqTimers>>
       ELSE /\ busy' = FALSE
            /\ promise' = [promise EXCEPT
                              ![t] = IF @ = "pending" THEN "resolved" ELSE @]
            /\ UNCHANGED pqTimers

\* the worker ends its oldest unanswered search with a bestmove line, which
\* is delivered to the handler installed at that moment
engineBestmove ==
  /\ PendingSearches # <<>>
  /\ answered' = answered + 1
  /\ IF onmessage = "handler"
       THEN handleBestmove(handlerReq)
       ELSE UNCHANGED <<timers, onmessage, handlerReq, promise, busy, pqTimers>>
  /\ UNCHANGED <<engineRev, initCalled, worker, ready, queue, nreq, posted,
                 readyokSent, nstop>>
  /\ UNCHANGED <<analyzerVars, calcVars>>

\* ------------------------------------------------------------------ stop, clearQueue
\* stop() that changes the flag but posts nothing
MutStopPostsNothing ==
  /\ nstop < MaxStop
  /\ nstop' = nstop + 1
  /\ busy' = IF engineRev = "reject" THEN FALSE ELSE busy
  /\ UNCHANGED <<engineRev, initCalled, worker, ready, queue, onmessage,
                 handlerReq, timers, pqTimers, promise, nreq, posted, answered,
                 readyokSent>>
  /\ UNCHANGED <<analyzerVars, calcVars>>

\* stop() of either revision
stop ==
  /\ nstop < MaxStop
  /\ nstop' = nstop + 1
  /\ IF engineRev = "queue"
       THEN /\ posted' = IF worker THEN Append(posted, Cmd("stop", 0)) ELSE posted
            /\ UNCHANGED busy
       ELSE IF worker /\ busy
         THEN /\ posted' = Append(posted, Cmd("stop", 0))
              /\ busy' = FALSE
         ELSE UNCHANGED <<posted, busy>>
  /\ UNCHANGED <<engineRev, initCalled, worker, ready, queue, onmessage,
                 handlerReq, timers, pqTimers, promise, nreq, answered,
                 readyokSent>>
  /\ UNCHANGED <<analyzerVars, calcVars>>

clearQueue ==
  /\ engineRev = "queue"
  /\ queue # <<>>
  /\ queue' = <<>>
  /\ UNCHANGED <<engineRev, initCalled, worker, ready, busy, onmessage,
                 handlerReq, timers, pqTimers, promise, nreq, posted, answered,
                 readyokSent, nstop>>
  /\ UNCHANGED <<analyzerVars, calcVars>>

\* ------------------------------------------------------------------ games
\* A position is the list of plies played to reach it (what Chess.fen() of a
\* replayed game stands for); a ply is the move object chess.js returns, with
\* the squares as <<file, rank>> from 0, the flags as a set of letters, and the
\* piece counts and check status chess.js reports of the board after it.
Sq(file, rank) == <<file, rank>>

Men(p, n, b, r, q) == [p |-> p, n |-> n, b |-> b, r |-> r, q |-> q, k |-> 1]

\* the men of each side, whether the side to move is in check, the kings
Board(w, b, chk, wk, bk) ==
  [w |-> w, b |-> b, inCheck |-> chk, wk |-> wk, bk |-> bk]

StartBoard ==
  Board(Men(3, 0, 0, 1, 0), Men(3, 0, 0, 0, 0), FALSE, Sq(6, 0), Sq(6, 7))

\* the king steps aside; the pawn takes the rook and promotes, to a queen
\* (with check) or to a knight; or another pawn advances two squares
W1 == [color |-> "w", from |-> Sq(6, 0), to |-> Sq(5, 1), promotion |-> "",
       captured |-> "", flags |-> {"n"},
       board |-> Board(Men(3, 0, 0, 1, 0), Men(3, 0, 0, 0, 0), FALSE,
                       Sq(5, 1), Sq(6, 7))]
Bq == [color |-> "b", from |-> Sq(1, 1), to |-> Sq(0, 0), promotion |-> "q",
       captured |-> "r", flags |-> {"c", "p"},
       board |-> Board(Men(3, 0, 0, 0, 0), Men(2, 0, 0, 0, 1), TRUE,
                       Sq(5, 1), Sq(6, 7))]
Bn == [color |-> "b", from |-> Sq(1, 1), to |-> Sq(0, 0), promotion |-> "n",
       captured |-> "r", flags |-> {"c", "p"},
       board |-> Board(Men(3, 0, 0, 0, 0), Men(2, 1, 0, 0, 0), FALSE,
                       Sq(5, 1), Sq(6, 7))]
Bo == [color |-> "b", from |-> Sq(4, 6), to |-> Sq(4, 4), promotion |-> "",
       captured |-> "", flags |-> {"b"},
       board |-> Board(Men(3, 0, 0, 1, 0), Men(3, 0, 0, 0, 0), FALSE,
                       Sq(5, 1), Sq(6, 7))]

\* the games a PGN can hold
Games == {<<W1>>, <<W1, Bq>>, <<W1, Bn>>, <<W1, Bo>>}

\* the moves onDrop can append: the board always promotes to a queen
DropMoves(history) ==
  IF history = <<>> THEN {W1}
  ELSE IF history = <<W1>> THEN {Bq, Bo}
  ELSE {}

MoveIndex == 0..(MaxPlies - 1)

\* the board of a replayed game: Chess.board() and Chess.in_check()
BoardOf(game) == IF game = <<>> THEN StartBoard ELSE game[Len(game)].board

\* tempGame after "reset(); for (i < n) tempGame.move(STATE.moveHistory[i])":
\* move(undefined) makes no move
Replay(n) ==
  SubSeq(moveHistory, 1, IF n <= Len(moveHistory) THEN n ELSE Len(moveHistory))

\* move.from + move.to + (move.promotion || ''), and the engine's bestMove
Uci(move) == <<move.from, move.to, move.promotion>>

\* ------------------------------------------------------------------ records
NoResult == [kind |-> "undefined"]
Null == [kind |-> "null"]

\* no function of the Move Classifier is applied on its own
CalcIdle == input = NoResult /\ output = NoResult

\* no activation ended in the last step
NoReturn == [via |-> "", of |-> <<>>, ret |-> NoResult]

\* the record of the catch block: { classification: 'good', cpLoss: 0, error }
Degraded == [kind |-> "degraded", classification |-> "good", cpLoss |-> 0]

\* what an Engine Session request can resolve with: the score from the side
\* to move (two searches of one position need not agree), the best move, the
\* other lines, the depth
Scores(fen) ==
  IF fen = <<>> THEN {-50}
  ELSE IF fen = <<W1>> THEN {40}
  ELSE IF fen = <<W1, Bq>> THEN {-40, 50}
  ELSE {-40}

BestMove(fen) ==
  IF fen = <<W1>> THEN Uci(Bq) ELSE <<Sq(0, 1), Sq(0, 2), "">>

EngineResults(fen, depth) ==
  {[score |-> s, bestMove |-> BestMove(fen), alternatives |-> <<>>,
    depth |-> depth] : s \in Scores(fen)}

\* the moves the model tells apart: position before, and the move
Ident(prevFen, move) == <<prevFen, move>>

Idents ==
  UNION {{Ident(SubSeq(g, 1, i - 1), g[i]) : i \in 1..Len(g)} : g \in Games}

\* ------------------------------------------------------------------ CONFIG
\* src/js/config.js pairs with the revisions that pass tactical patterns to the
\* classifier (js, p006); part_000 pairs with the configuration of part_007.
PIECE_VALUES ==
  IF analyzerRev = "p000"
  THEN [p |-> 100, n |-> 320, b |-> 330, r |-> 500, q |-> 900, k |-> 0]
  ELSE [p |-> 100, n |-> 305, b |-> 333, r |-> 563, q |-> 950, k |-> 0]

CLASSIFICATION ==
  [OPENING |-> [BEST_THRESHOLD |-> 12, GREAT_THRESHOLD |-> 28,
                GOOD_THRESHOLD |-> 55, INACCURACY_THRESHOLD |-> 110,
                MISTAKE_THRESHOLD |-> 210],
   MIDDLEGAME |-> [BEST_THRESHOLD |-> 10, GREAT_THRESHOLD |-> 25,
                   GOOD_THRESHOLD |-> 50, INACCURACY_THRESHOLD |-> 100,
                   MISTAKE_THRESHOLD |-> 200],
   ENDGAME |-> [BEST_THRESHOLD |-> 8, GREAT_THRESHOLD |-> 20,
                GOOD_THRESHOLD |-> 40, INACCURACY_THRESHOLD |-> 80,
                MISTAKE_THRESHOLD |-> 150]]

BRILLIANT ==
  [MIN_SACRIFICE |-> 280, MIN_EVAL_GAIN |-> 60, UNIQUENESS_GAP |-> 100,
   MIN_COMPLEXITY |-> 40, MIN_EVAL_SWING |-> 120, MAX_CP_LOSS |-> -20]

GREAT == [MAX_CP_LOSS |-> 25, MIN_EVAL_GAIN |-> 40, MIN_POSITION_SCORE |-> 200]

POSITIONAL_BONUSES == [CENTER_CONTROL |-> 25, ADVANCED_PAWN |-> 20, KING_SAFETY |-> 30]

TACTICAL_PATTERNS ==
  [CHECK_BONUS |-> 30, CAPTURE_BONUS |-> 20, PROMOTION_BONUS |-> 40,
   CASTLING_BONUS |-> 15]

\* ------------------------------------------------------------------ position
Abs(x) == IF x < 0 THEN -x ELSE x
Min(a, b) == IF a < b THEN a ELSE b
Max(a, b) == IF a > b THEN a ELSE b

Count(men) == men.p + men.n + men.b + men.r + men.q + men.k

Material(men) ==
  men.p * PIECE_VALUES.p + men.n * PIECE_VALUES.n + men.b * PIECE_VALUES.b
  + men.r * PIECE_VALUES.r + men.q * PIECE_VALUES.q + men.k * PIECE_VALUES.k

\* game.board()[i][j] holds the square of file j and rank 8 - i
BoardRow(sq) == 7 - sq[2]
BoardCol(sq) == sq[1]

analyzePosition(game, moveIndex) ==
  LET bd == BoardOf(game)
      whitePieces == Count(bd.w)
      blackPieces == Count(bd.b)
      whiteMaterial == Material(bd.w)
      blackMaterial == Material(bd.b)
      totalPieces == whitePieces + blackPieces
      materialBalance == whiteMaterial - blackMaterial
      phase == IF totalPieces <= 10 THEN "endgame"
               ELSE IF (IF analyzerRev = "p000" THEN totalPieces >= 28
                        ELSE moveIndex < 12) THEN "opening"
               ELSE "middlegame"
      isTactical == \/ bd.inCheck
                    \/ totalPieces < 20
                    \/ analyzerRev = "p006" /\ Abs(materialBalance) > 300
      kingDistance == Abs(BoardRow(bd.wk) - BoardRow(bd.bk))
                      + Abs(BoardCol(bd.wk) - BoardCol(bd.bk))
      common == [phase |-> phase, whitePieces |-> whitePieces,
                 blackPieces |-> blackPieces, whiteMaterial |-> whiteMaterial,
                 blackMaterial |-> blackMaterial,
                 materialBalance |-> materialBalance,
                 isEndgame |-> (phase = "endgame"), isTactical |-> isTactical]
  IN  IF analyzerRev = "p000" THEN common
      ELSE IF analyzerRev = "js" THEN common @@ [totalPieces |-> totalPieces]
      ELSE common @@ [totalPieces |-> totalPieces,
                      kingProximity |-> (kingDistance < 4)]

\* file and rank of move.to as the code reads them
ToFile(move) == move.to[1]
ToRank(move) == move.to[2]

\* part_000 and part_006; the js revision takes the bare piece value.  The
\* part_006 distance mixes the rank of move.to with the row index of board().
calculateEnhancedMaterial(move, game) ==
  IF move.captured = "" THEN 0
  ELSE
    LET baseValue == PIECE_VALUES[move.captured]
        center == ToFile(move) >= 3 /\ ToFile(move) <= 4
                  /\ ToRank(move) >= 3 /\ ToRank(move) <= 4
        advanced == ToRank(move) >= 5 /\ move.captured # "p"
        enemyKing == IF move.color = "w" THEN BoardOf(game).bk
                     ELSE BoardOf(game).wk
        distance == Abs(ToRank(move) - BoardRow(enemyKing))
                    + Abs(ToFile(move) - BoardCol(enemyKing))
    IN  IF analyzerRev = "p000"
        THEN baseValue + (IF center THEN 20 ELSE 0)
                       + (IF advanced THEN 15 ELSE 0)
        ELSE baseValue
             + (IF center THEN POSITIONAL_BONUSES.CENTER_CONTROL ELSE 0)
             + (IF advanced THEN POSITIONAL_BONUSES.ADVANCED_PAWN ELSE 0)
             + (IF distance <= 2 THEN POSITIONAL_BONUSES.KING_SAFETY ELSE 0)

materialLossOf(move, game) ==
  IF analyzerRev = "js"
  THEN (IF move.captured = "" THEN 0 ELSE PIECE_VALUES[move.captured])
  ELSE calculateEnhancedMaterial(move, game)

detectTacticalPatterns(move, game) ==
  LET check == BoardOf(game).inCheck
      capture == move.captured # ""
      promotion == move.promotion # ""
      castling == "k" \in move.flags \/ "q" \in move.flags
      enPassant == "e" \in move.flags
  IN  [patterns |-> [check |-> check, capture |-> capture,
                     promotion |-> promotion, castling |-> castling,
                     enPassant |-> enPassant, discovered |-> FALSE,
                     fork |-> FALSE, pin |-> FALSE, skewer |-> FALSE],
       tacticalScore |->
         (IF check THEN TACTICAL_PATTERNS.CHECK_BONUS ELSE 0)
         + (IF capture THEN TACTICAL_PATTERNS.CAPTURE_BONUS ELSE 0)
         + (IF promotion THEN TACTICAL_PATTERNS.PROMOTION_BONUS ELSE 0)
         + (IF castling THEN TACTICAL_PATTERNS.CASTLING_BONUS ELSE 0)]

\* ------------------------------------------------------------------ classifier
\* MoveClassifier: the revision of part_006 (lines 6-325) serves the js and
\* p006 orchestrators, which pass it tactical patterns; the revision of
\* src/js/boardManager.js (lines 221-506) serves part_000.

\* 50 + 50 * (2 / (1 + exp(-0.00368208 * cp)) - 1), in thousandths of a percent,
\* tabulated on the evaluations of this model (10000 is a mate score)
WinProbTable ==
  (-10000 :> 0) @@ (-600 :> 9892) @@ (-450 :> 16017) @@ (-300 :> 24887)
  @@ (-250 :> 28485) @@ (-100 :> 40897) @@ (-50 :> 45410) @@ (-40 :> 46325)
  @@ (0 :> 50000) @@ (40 :> 53675) @@ (50 :> 54590) @@ (100 :> 59103)
  @@ (250 :> 71515) @@ (300 :> 75113) @@ (450 :> 83983) @@ (600 :> 90108)
  @@ (10000 :> 100000)

centipawnsToWinProb(cp) == WinProbTable[cp]

calculateWinProbLoss(cpBefore, cpAfter) ==
  centipawnsToWinProb(cpBefore) - centipawnsToWinProb(cpAfter)

\* "tactical && ...", "position && ...": the datum is there
Present(x) == x # NoResult

RECURSIVE MaxScore(_, _), MinScore(_, _)
MaxScore(alts, i) ==
  IF i = Len(alts) THEN alts[i].score
  ELSE Max(alts[i].score, MaxScore(alts, i + 1))
MinScore(alts, i) ==
  IF i = Len(alts) THEN alts[i].score
  ELSE Min(alts[i].score, MinScore(alts, i + 1))

\* |alternatives[0].score - alternatives[1].score|
TopGap(alts) == Abs(alts[1].score - alts[2].score)

calculateComplexity(d) ==
  IF analyzerRev = "p000"
  THEN (IF Len(d.alternatives) > 0 THEN Min(Len(d.alternatives) * 5, 30) ELSE 0)
       + (IF Len(d.alternatives) >= 2
          THEN (IF TopGap(d.alternatives) > 100 THEN 20
                ELSE IF TopGap(d.alternatives) > 50 THEN 10 ELSE 0)
          ELSE 0)
  ELSE
    LET variance == MaxScore(d.alternatives, 1) - MinScore(d.alternatives, 1)
        c == (IF Len(d.alternatives) > 0
              THEN Min(Len(d.alternatives) * 8, 40)
                   + (IF Len(d.alternatives) >= 2
                      THEN (IF variance > 150 THEN 30
                            ELSE IF variance > 80 THEN 20
                            ELSE IF variance > 40 THEN 10 ELSE 0)
                      ELSE 0)
              ELSE 0)
             + (IF Present(d.tactical) /\ d.tactical.tacticalScore > 0
                THEN Min(d.tactical.tacticalScore, 35) ELSE 0)
             + (IF Present(d.position) /\ d.position.phase = "middlegame"
                THEN 15 ELSE 0)
             + (IF Present(d.position) /\ d.position.isTactical THEN 20 ELSE 0)
             + (IF Present(d.position) /\ d.position.materialBalance # 0
                   /\ Abs(d.position.materialBalance) < 100 THEN 10 ELSE 0)
    IN  Min(c, 100)

detectGamePhase(d) ==
  IF analyzerRev = "p000"
  THEN (IF d.moveIndex < 10 THEN "opening"
        ELSE IF d.moveIndex < 25 \/ d.totalMoves > 40 THEN "middlegame"
        ELSE "endgame")
  ELSE (IF d.moveIndex < 12 THEN "OPENING"
        ELSE IF Present(d.position) /\ d.position.phase = "endgame"
        THEN "ENDGAME"
        ELSE IF Present(d.position) /\ d.position.phase = "opening"
        THEN "OPENING"
        ELSE "MIDDLEGAME")

\* getThresholdsForPhase (part_006) and getPhaseAdjustedThresholds (boardManager)
Thresholds(d) ==
  IF analyzerRev = "p000"
  THEN LET phase == detectGamePhase(d)
           base == IF phase = "opening"
                   THEN [BEST_THRESHOLD |-> 20, GREAT_THRESHOLD |-> 40,
                         GOOD_THRESHOLD |-> 70, INACCURACY_THRESHOLD |-> 150,
                         MISTAKE_THRESHOLD |-> 300]
                   ELSE IF phase = "middlegame"
                   THEN [BEST_THRESHOLD |-> 15, GREAT_THRESHOLD |-> 30,
                         GOOD_THRESHOLD |-> 60, INACCURACY_THRESHOLD |-> 150,
                         MISTAKE_THRESHOLD |-> 300]
                   ELSE [BEST_THRESHOLD |-> 10, GREAT_THRESHOLD |-> 25,
                         GOOD_THRESHOLD |-> 50, INACCURACY_THRESHOLD |-> 120,
                         MISTAKE_THRESHOLD |-> 250]
       IN  IF Abs(d.evalBefore) > 300
           THEN [BEST_THRESHOLD |-> base.BEST_THRESHOLD + 5,
                 GREAT_THRESHOLD |-> base.GREAT_THRESHOLD + 10,
                 GOOD_THRESHOLD |-> base.GOOD_THRESHOLD + 15,
                 INACCURACY_THRESHOLD |-> base.INACCURACY_THRESHOLD + 30,
                 MISTAKE_THRESHOLD |-> base.MISTAKE_THRESHOLD + 50]
           ELSE base
  ELSE CLASSIFICATION[detectGamePhase(d)]

EvalGain(d) ==
  IF d.move.color = "w" THEN d.evalAfter - d.evalBefore
  ELSE d.evalBefore - d.evalAfter

isBrilliant(d) ==
  IF analyzerRev = "p000"
  THEN /\ d.materialLoss >= 300
       /\ d.cpLoss <= -30
       /\ Len(d.alternatives) >= 2 => TopGap(d.alternatives) >= 80
       /\ calculateComplexity(d) >= 30
       /\ Abs(d.evalAfter - d.evalBefore) >= 100
  ELSE /\ d.materialLoss >= BRILLIANT.MIN_SACRIFICE
       /\ d.cpLoss <= BRILLIANT.MAX_CP_LOSS
       /\ EvalGain(d) >= BRILLIANT.MIN_EVAL_GAIN
       /\ Len(d.alternatives) >= 2
            => TopGap(d.alternatives) >= BRILLIANT.UNIQUENESS_GAP
       /\ calculateComplexity(d) >= BRILLIANT.MIN_COMPLEXITY
       /\ Abs(d.evalAfter - d.evalBefore) >= BRILLIANT.MIN_EVAL_SWING
       /\ ~(Abs(d.evalBefore) > 500 /\ EvalGain(d) < 100)

isBestMove(d) ==
  IF analyzerRev = "p000"
  THEN \/ d.wasBestMove
       \/ d.cpLoss <= 10
       \/ Len(d.alternatives) >= 2 /\ TopGap(d.alternatives) < 15
          /\ d.cpLoss <= 15
  ELSE LET best == Thresholds(d).BEST_THRESHOLD
       IN  \/ d.wasBestMove
           \/ d.cpLoss <= best
           \/ IF Len(d.alternatives) >= 2 /\ TopGap(d.alternatives) < 12
              THEN d.cpLoss <= best + 5
              ELSE Abs(d.evalBefore) > 400 /\ d.cpLoss <= best + 5

isGreatMove(d) ==
  IF analyzerRev = "p000"
  THEN /\ d.cpLoss <= 30
       /\ \/ EvalGain(d) > 30 /\ d.cpLoss < 20
          \/ Abs(d.evalBefore) > 200 /\ d.cpLoss < 25
          \/ d.cpLoss >= 15 /\ d.cpLoss <= 30
  ELSE /\ d.cpLoss <= GREAT.MAX_CP_LOSS
       /\ \/ EvalGain(d) > GREAT.MIN_EVAL_GAIN /\ d.cpLoss < 20
          \/ Abs(d.evalBefore) > GREAT.MIN_POSITION_SCORE
             /\ d.cpLoss < Thresholds(d).GREAT_THRESHOLD
          \/ Present(d.tactical) /\ d.tactical.tacticalScore > 40
             /\ d.cpLoss < Thresholds(d).GREAT_THRESHOLD
          \/ d.cpLoss >= Thresholds(d).BEST_THRESHOLD
             /\ d.cpLoss <= Thresholds(d).GREAT_THRESHOLD

\* classify with the best-move rule tried before the brilliant rule
MutClassifyBestFirst(d) ==
  LET p000 == analyzerRev = "p000"
      winProbLoss == calculateWinProbLoss(d.evalBefore, d.evalAfter)
      book == IF p000
              THEN detectGamePhase(d) = "opening" /\ d.moveIndex < 10
                   /\ Abs(d.cpLoss) < 30
              ELSE detectGamePhase(d) = "OPENING" /\ d.moveIndex < 10
                   /\ Abs(d.cpLoss) < 25
  IN  IF book THEN "book"
      ELSE IF isBestMove(d) THEN "best"
      ELSE IF isBrilliant(d) THEN "brilliant"
      ELSE IF isGreatMove(d) THEN "great"
      ELSE IF d.cpLoss <= Thresholds(d).GOOD_THRESHOLD THEN "good"
      ELSE IF \/ d.cpLoss <= Thresholds(d).INACCURACY_THRESHOLD
              \/ winProbLoss < (IF p000 THEN 10000 ELSE 8000)
           THEN "inaccuracy"
      ELSE IF \/ d.cpLoss <= Thresholds(d).MISTAKE_THRESHOLD
              \/ winProbLoss < (IF p000 THEN 20000 ELSE 15000)
           THEN "mistake"
      ELSE "blunder"

classify(d) ==
  LET p000 == analyzerRev = "p000"
      winProbLoss == calculateWinProbLoss(d.evalBefore, d.evalAfter)
      book == IF p000
              THEN detectGamePhase(d) = "opening" /\ d.moveIndex < 10
                   /\ Abs(d.cpLoss) < 30
              ELSE detectGamePhase(d) = "OPENING" /\ d.moveIndex < 10
                   /\ Abs(d.cpLoss) < 25
  IN  IF book THEN "book"
      ELSE IF isBrilliant(d) THEN "brilliant"
      ELSE IF isBestMove(d) THEN "best"
      ELSE IF isGreatMove(d) THEN "great"
      ELSE IF d.cpLoss <= Thresholds(d).GOOD_THRESHOLD THEN "good"
      ELSE IF \/ d.cpLoss <= Thresholds(d).INACCURACY_THRESHOLD
              \/ winProbLoss < (IF p000 THEN 10000 ELSE 8000)
           THEN "inaccuracy"
      ELSE IF \/ d.cpLoss <= Thresholds(d).MISTAKE_THRESHOLD
              \/ winProbLoss < (IF p000 THEN 20000 ELSE 15000)
           THEN "mistake"
      ELSE "blunder"

\* ------------------------------------------------------------------ statistics
\* Math.round of the fraction n / d, d positive
RoundHalfUp(n, d) == (2 * n + d) \div (2 * d)

\* Math.round(accuracy * 10) for acpl = 0, 1, 2, ... with
\* accuracy = 103.1668 - 3.9114 * Math.log(0.000196 * x * x + 0.0388 * x + 1)
AccuracyTable ==
  <<
    1032, 1030, 1029, 1027, 1026, 1025, 1023, 1022, 1021, 1019, 1018, 1017,
    1016, 1015, 1014, 1013, 1012, 1011, 1010, 1009, 1008, 1007, 1006, 1005,
    1004, 1003, 1002, 1001, 1000, 999, 998, 998, 997, 996, 995, 994,
    994, 993, 992, 991, 990, 990, 989, 988, 988, 987, 986, 985,
    985, 984, 983, 983, 982, 981, 981, 980, 980, 979, 978, 978,
    977, 977, 976, 975, 975, 974, 974, 973, 972, 972, 971, 971,
    970, 970, 969, 969, 968, 968, 967, 967, 966, 965, 965, 964,
    964, 963, 963, 963, 962, 962, 961, 961, 960, 960, 959, 959,
    958, 958, 957, 957, 956, 956, 956, 955, 955, 954, 954, 953,
    953, 953, 952, 952, 951, 951, 950, 950, 950, 949, 949, 948,
    948, 948, 947, 947, 946, 946, 946, 945, 945, 945, 944, 944,
    943, 943, 943, 942, 942, 942, 941, 941, 941, 940, 940, 939,
    939, 939, 938, 938, 938, 937, 937, 937 >>

\* calculateAccuracy without the clamp at 100
MutCalculateAccuracyNoCap(acpl) ==
  IF acpl = 0 THEN 1000
  ELSE Max(0, AccuracyTable[acpl + 1])

\* calculateAccuracy, in tenths of a percent
calculateAccuracy(acpl) ==
  IF acpl = 0 THEN 1000
  ELSE Max(0, Min(1000, AccuracyTable[acpl + 1]))

\* calculateAccuracy of the earlier Move Classifier, in tenths of a percent:
\* accuracy = 103.4 - (0.382 * acpl) - (0.00217 * acpl * acpl)
calculateAccuracySimple(acpl) ==
  IF acpl = 0 THEN 1000
  ELSE Max(0, Min(1000,
         RoundHalfUp(10340000 - 38200 * acpl - 217 * acpl * acpl, 10000)))

\* Object.values(STATE.analysisData).filter(m => m && m.classification), from
\* key i on: the integer keys come in ascending order
RECURSIVE analyzedMovesFrom(_, _)
analyzedMovesFrom(data, i) ==
  IF i \notin DOMAIN data THEN <<>>
  ELSE (IF data[i].kind \in {"full", "degraded"} THEN <<data[i]>> ELSE <<>>)
       \o analyzedMovesFrom(data, i + 1)

\* moves.filter((m, idx) => STATE.moveHistory[idx] &&
\* STATE.moveHistory[idx].color === color): idx is the place in moves
RECURSIVE colorMovesFrom(_, _, _, _)
colorMovesFrom(moves, history, color, k) ==
  IF k > Len(moves) THEN <<>>
  ELSE (IF k <= Len(history) /\ history[k].color = color
        THEN <<moves[k]>> ELSE <<>>)
       \o colorMovesFrom(moves, history, color, k + 1)

RECURSIVE SumLoss(_, _)
SumLoss(ms, k) ==
  IF k > Len(ms) THEN 0 ELSE Max(0, ms[k].cpLoss) + SumLoss(ms, k + 1)

calculateACPL(moves, history, color) ==
  LET colorMoves == colorMovesFrom(moves, history, color, 1)
  IN  IF Len(colorMoves) = 0 THEN 0
      ELSE RoundHalfUp(SumLoss(colorMoves, 1), Len(colorMoves))

countMoveTypes(moves, history, color) ==
  LET colorMoves == colorMovesFrom(moves, history, color, 1)
  IN  [t \in {"brilliant", "best", "great", "good", "book", "inaccuracy",
              "mistake", "blunder"} |->
         Cardinality({k \in 1..Len(colorMoves) : colorMoves[k].classification = t})]

\* STATE.gameStats as calculateStatistics / calculateAdvancedStatistics
\* computes it; NoResult when it returns early and stores nothing
calculateStatistics(data, history) ==
  LET analyzedMoves == analyzedMovesFrom(data, 0)
      side(color) == [acpl |-> calculateACPL(analyzedMoves, history, color),
                      accuracy |->
                        calculateAccuracy(calculateACPL(analyzedMoves, history, color)),
                      counts |-> countMoveTypes(analyzedMoves, history, color)]
  IN  IF Len(analyzedMoves) = 0 THEN NoResult
      ELSE [kind |-> "stats", w |-> side("w"), b |-> side("b"),
            totalMoves |-> Len(history), analyzedMoves |-> Len(analyzedMoves)]

\* ------------------------------------------------------------------ cache
\* `${prevFen}_${move.from}${move.to}`, with `${move.promotion || ''}` appended
\* in part_006; the tuple keeps apart what the string keeps apart
cacheKey(prevFen, move) ==
  IF analyzerRev = "p006" THEN <<prevFen, move.from, move.to, move.promotion>>
  ELSE <<prevFen, move.from, move.to>>

CacheKeys(cache) == {cache[i].key : i \in 1..Len(cache)}

CacheGet(cache, key) ==
  cache[CHOOSE i \in 1..Len(cache) : cache[i].key = key].val

\* Map.set and property assignment: a present key keeps its place
CacheSet(cache, key, val) ==
  IF key \in CacheKeys(cache)
  THEN [i \in 1..Len(cache) |->
          IF cache[i].key = key THEN [key |-> key, val |-> val] ELSE cache[i]]
  ELSE Append(cache, [key |-> key, val |-> val])

\* the store skipped: the result is returned without being cached
MutCacheStoreSkipped(cache, key, val) == cache

\* the cache store at the end of analyzeSingleMove; part_006 then deletes
\* keys().next().value when the size exceeds CACHE_MAX_SIZE
CacheStore(cache, key, val) ==
  LET set == CacheSet(cache, key, val)
  IN  IF analyzerRev = "p006" /\ Len(set) > CACHE_MAX_SIZE THEN Tail(set)
      ELSE set

\* ------------------------------------------------------------------ activations
Callers == {"batch", "ui"}

IdleCall ==
  [pc |-> "idle", idx |-> 0, move |-> W1, prevFen |-> <<>>, tempGame |-> <<>>,
   stage |-> 0, attempt |-> 0, attempts |-> 0, prev |-> NoResult,
   curr |-> NoResult, ret |-> NoResult, via |-> ""]

\* the Engine Session requests of one analysis, in order: the position asked
\* about, the depth, whether a delay() precedes the request, whether the
\* analysis fails without the answer, and whether the answer is the one used
\* (prevAnalysis for "prev", currAnalysis for "curr")
Stages ==
  IF analyzerRev = "js"
  THEN <<[fen |-> "prev", depth |-> 16, pre |-> TRUE, must |-> TRUE,
          keep |-> TRUE],
         [fen |-> "curr", depth |-> 16, pre |-> TRUE, must |-> TRUE,
          keep |-> TRUE]>>
  ELSE IF analyzerRev = "p000"
  THEN <<[fen |-> "prev", depth |-> 12, pre |-> FALSE, must |-> TRUE,
          keep |-> FALSE],
         [fen |-> "curr", depth |-> 12, pre |-> TRUE, must |-> TRUE,
          keep |-> FALSE],
         [fen |-> "prev", depth |-> 18, pre |-> TRUE, must |-> TRUE,
          keep |-> TRUE],
         [fen |-> "curr", depth |-> 18, pre |-> TRUE, must |-> TRUE,
          keep |-> TRUE]>>
  ELSE <<[fen |-> "prev", depth |-> 14, pre |-> FALSE, must |-> TRUE,
          keep |-> FALSE],
         [fen |-> "curr", depth |-> 14, pre |-> TRUE, must |-> TRUE,
          keep |-> FALSE],
         [fen |-> "prev", depth |-> 18, pre |-> TRUE, must |-> TRUE,
          keep |-> TRUE],
         [fen |-> "curr", depth |-> 18, pre |-> TRUE, must |-> TRUE,
          keep |-> TRUE],
         [fen |-> "prev", depth |-> 24, pre |-> TRUE, must |-> FALSE,
          keep |-> TRUE]>>

\* the position a stage asks the engine about
StageFen(c) ==
  IF Stages[c.stage].fen = "prev" THEN c.prevFen
  ELSE Append(c.prevFen, c.move)

\* the assembly with the evaluation after the move negated for the wrong mover
MutMoveAnalysisFlipsMover(c) ==
  LET move == c.move
      evalBefore == IF move.color = "b" THEN -c.prev.score ELSE c.prev.score
      evalAfter == IF move.color = "b" THEN -c.curr.score ELSE c.curr.score
      cpLoss == Max(0, evalBefore - evalAfter)
      materialLoss == materialLossOf(move, c.tempGame)
      wasBestMove == c.prev.bestMove = Uci(move)
      alternatives == IF analyzerRev = "p000"
                      THEN <<[move |-> c.prev.bestMove, score |-> 0]>>
                      ELSE c.prev.alternatives
      position == analyzePosition(c.tempGame, c.idx)
      tactical == detectTacticalPatterns(move, c.tempGame)
      d == [moveIndex |-> c.idx, move |-> move, cpLoss |-> cpLoss,
            evalBefore |-> evalBefore, evalAfter |-> evalAfter,
            materialLoss |-> materialLoss, alternatives |-> alternatives,
            wasBestMove |-> wasBestMove, totalMoves |-> Len(moveHistory),
            position |-> position, tactical |-> tactical]
      common == [kind |-> "full", of |-> Ident(c.prevFen, move),
                 prevEval |-> c.prev.score, currEval |-> c.curr.score,
                 cpLoss |-> cpLoss, evalBefore |-> evalBefore,
                 evalAfter |-> evalAfter, bestMove |-> c.prev.bestMove,
                 alternatives |-> alternatives, wasBestMove |-> wasBestMove,
                 materialLoss |-> materialLoss,
                 classification |-> classify(d), depth |-> c.prev.depth,
                 position |-> position]
  IN  IF analyzerRev = "js" THEN common @@ [tactical |-> tactical]
      ELSE IF analyzerRev = "p000"
      THEN common @@ [winProbLoss |-> calculateWinProbLoss(evalBefore, evalAfter),
                      complexity |-> calculateComplexity(d)]
      ELSE common @@ [tactical |-> tactical,
                      winProbLoss |-> calculateWinProbLoss(evalBefore, evalAfter),
                      complexity |-> calculateComplexity(d)]

\* the assembly of the MoveAnalysis from the answers (perspective, cpLoss,
\* material, classification); the field "of" is history: the move the record
\* was computed for
MoveAnalysis(c) ==
  LET move == c.move
      evalBefore == IF move.color = "b" THEN -c.prev.score ELSE c.prev.score
      evalAfter == IF move.color = "b" THEN c.curr.score ELSE -c.curr.score
      cpLoss == Max(0, evalBefore - evalAfter)
      materialLoss == materialLossOf(move, c.tempGame)
      wasBestMove == c.prev.bestMove = Uci(move)
      alternatives == IF analyzerRev = "p000"
                      THEN <<[move |-> c.prev.bestMove, score |-> 0]>>
                      ELSE c.prev.alternatives
      position == analyzePosition(c.tempGame, c.idx)
      tactical == detectTacticalPatterns(move, c.tempGame)
      d == [moveIndex |-> c.idx, move |-> move, cpLoss |-> cpLoss,
            evalBefore |-> evalBefore, evalAfter |-> evalAfter,
            materialLoss |-> materialLoss, alternatives |-> alternatives,
            wasBestMove |-> wasBestMove, totalMoves |-> Len(moveHistory),
            position |-> position, tactical |-> tactical]
      common == [kind |-> "full", of |-> Ident(c.prevFen, move),
                 prevEval |-> c.prev.score, currEval |-> c.curr.score,
                 cpLoss |-> cpLoss, evalBefore |-> evalBefore,
                 evalAfter |-> evalAfter, bestMove |-> c.prev.bestMove,
                 alternatives |-> alternatives, wasBestMove |-> wasBestMove,
                 materialLoss |-> materialLoss,
                 classification |-> classify(d), depth |-> c.prev.depth,
                 position |-> position]
  IN  IF analyzerRev = "js" THEN common @@ [tactical |-> tactical]
      ELSE IF analyzerRev = "p000"
      THEN common @@ [winProbLoss |-> calculateWinProbLoss(evalBefore, evalAfter),
                      complexity |-> calculateComplexity(d)]
      ELSE common @@ [tactical |-> tactical,
                      winProbLoss |-> calculateWinProbLoss(evalBefore, evalAfter),
                      complexity |-> calculateComplexity(d)]

\* ------------------------------------------------------------------ analyzeSingleMove
\* StockfishEngine.busy as the js revision reads it between its own steps: a
\* request of another activation is being served
EngineBusy == \E cl \in Callers : calls[cl].pc = "await"

\* the activation has returned ret
Ended(c, ret, via) ==
  [c EXCEPT !.pc = "done", !.ret = ret, !.via = via, !.tempGame = <<>>,
            !.stage = 0, !.attempt = 0, !.attempts = 0, !.prev = NoResult,
            !.curr = NoResult]

\* the catch block: the degraded record in js and part_006, a rethrow in
\* part_000
Failed(c) ==
  IF analyzerRev = "p000"
  THEN [Ended(c, NoResult, "failed") EXCEPT !.pc = "threw"]
  ELSE Ended(c, Degraded, "failed")

\* tempGame when the request of the stage is made: the position before, the
\* move applied on it, or a replay of STATE.moveHistory as it is by then
TempGame(c) ==
  IF c.stage = 1 THEN c.prevFen
  ELSE IF c.stage = 2 THEN Append(c.prevFen, c.move)
  ELSE IF analyzerRev = "p000"
  THEN (IF c.stage = 4 THEN Replay(c.idx + 1) ELSE c.tempGame)
  ELSE (IF c.stage = 4 THEN Append(c.tempGame, c.move) ELSE Replay(c.idx))

\* StockfishEngine.analyze(fen, depth) is called and awaited
Issue(c) == [c EXCEPT !.pc = "await"]

Enter(c) == Issue([c EXCEPT !.tempGame = TempGame(c)])

\* the sequence that goes from the quick stages to the deep one, past the
\* standard stages
MutAdvanceSkipsStandard(c) ==
  IF c.stage = Len(Stages) THEN Ended(c, MoveAnalysis(c), "computed")
  ELSE LET m == IF c.stage = 2 /\ Len(Stages) > 4 THEN 5 ELSE c.stage + 1
           n == [c EXCEPT !.stage = m, !.attempt = 0]
       IN  IF Stages[n.stage].pre THEN [n EXCEPT !.pc = "delay"] ELSE Enter(n)

\* after the answer of a stage: the next stage, behind its delay, or the
\* assembly of the result
Advance(c) ==
  IF c.stage = Len(Stages) THEN Ended(c, MoveAnalysis(c), "computed")
  ELSE LET n == [c EXCEPT !.stage = @ + 1, !.attempt = 0]
       IN  IF Stages[n.stage].pre THEN [n EXCEPT !.pc = "delay"] ELSE Enter(n)

\* the replay, the cache key and the cache check
Lookup(c) ==
  IF c.idx >= Len(moveHistory) THEN [Failed(c) EXCEPT !.via = "nomove"]
  ELSE
    LET prevFen == Replay(c.idx)
        move == moveHistory[c.idx + 1]
        key == cacheKey(prevFen, move)
        c1 == [c EXCEPT !.prevFen = prevFen, !.move = move]
    IN  IF key \in CacheKeys(analysisCache)
        THEN Ended(c1, CacheGet(analysisCache, key), "hit")
        ELSE Advance(c1)

\* part_006: an index under analysis is not analysed again
Begin(c) ==
  IF analyzerRev = "p006" /\ c.idx \in pendingAnalysis
  THEN Ended(c, analysisData[c.idx], "pending")
  ELSE Lookup(c)

\* analyzeSingleMove(idx) up to its first suspension
StartCall(idx) ==
  LET c == [IdleCall EXCEPT !.idx = idx]
  IN  IF ~ready THEN Ended(c, Null, "null")
      ELSE IF analyzerRev = "js" /\ EngineBusy THEN [c EXCEPT !.pc = "wait"]
      ELSE Begin(c)

\* js: one turn of the loop that waits for the engine
WaitTurn(c) ==
  LET n == [c EXCEPT !.attempts = @ + 1]
  IN  IF EngineBusy /\ n.attempts < WAIT_ATTEMPTS THEN n
      ELSE IF EngineBusy THEN Ended(n, Null, "null")
      ELSE Begin(n)

\* the request of the stage resolves with r
Resolved(c, r) ==
  Advance(IF ~Stages[c.stage].keep THEN c
          ELSE IF Stages[c.stage].fen = "prev" THEN [c EXCEPT !.prev = r]
          ELSE [c EXCEPT !.curr = r])

\* the rejection with every stage required
MutRejectedDeepRequired(c) ==
  IF analyzerRev # "p006" THEN Failed(c)
  ELSE IF c.attempt < RETRIES THEN [c EXCEPT !.pc = "retry", !.attempt = @ + 1]
  ELSE Failed(c)

\* the request of the stage rejects; part_006 (safeAnalyze) tries again after a
\* delay, RETRIES times, then returns null for the stage
Rejected(c) ==
  IF analyzerRev # "p006" THEN Failed(c)
  ELSE IF c.attempt < RETRIES THEN [c EXCEPT !.pc = "retry", !.attempt = @ + 1]
  ELSE IF Stages[c.stage].must THEN Failed(c)
  ELSE Advance(c)

\* the move whose analysis the activation was
IdentOf(c) == Ident(c.prevFen, c.move)

\* history: what the last completed activation for a move returned, forgotten
\* once the entry stored under the move's key has been deleted from the cache
PriorAfter(c, cache) ==
  LET evicted == CacheKeys(analysisCache) \ CacheKeys(cache)
      marked == [x \in Idents |->
                   IF cacheKey(x[1], x[2]) \in evicted
                   THEN NoResult ELSE prior[x]]
  IN  IF c.pc = "done" /\ c.via \in {"hit", "computed", "failed"}
         /\ IdentOf(c) \in Idents
      THEN [marked EXCEPT ![IdentOf(c)] = c.ret]
      ELSE marked

\* analyzeAllMoves after "await this.analyzeSingleMove(i)": its catch and
\* finally when the activation threw, the delay when it returned
BatchAfter(c, i) ==
  IF c.pc = "threw" THEN [pc |-> "idle", i |-> i, outcome |-> "aborted"]
  ELSE IF c.pc = "done" THEN [pc |-> "delay", i |-> i, outcome |-> ""]
  ELSE [pc |-> "await", i |-> i, outcome |-> ""]

\* the effects of one step of the activation of caller cl, now in state c:
\* the stores of a computed result and the resumption of the caller
Commit(cl, c, pend, i) ==
  LET computed == c.pc = "done" /\ c.via = "computed"
      cache == IF computed
               THEN CacheStore(analysisCache, cacheKey(c.prevFen, c.move), c.ret)
               ELSE analysisCache
      ended == c.pc \in {"done", "threw"}
  IN  /\ calls' = [calls EXCEPT ![cl] = IF ended THEN IdleCall ELSE c]
      /\ last' = IF ended
                 THEN [via |-> IF c.pc = "threw" THEN "threw" ELSE c.via,
                       of |-> IF c.via \in {"hit", "computed", "failed"}
                              THEN IdentOf(c) ELSE <<>>,
                       ret |-> c.ret]
                 ELSE NoReturn
      /\ analysisData' = IF computed
                         THEN [analysisData EXCEPT ![c.idx] = c.ret]
                         ELSE analysisData
      /\ analysisCache' = cache
      /\ pendingAnalysis' =
           IF c.pc = "done" /\ c.via \in {"hit", "computed", "failed", "nomove"}
           THEN pend \ {c.idx} ELSE pend
      /\ prior' = PriorAfter(c, cache)
      /\ batch' = IF cl = "batch" THEN BatchAfter(c, i) ELSE batch
      /\ isAnalyzing' = IF cl = "batch" THEN BatchAfter(c, i).pc # "idle"
                        ELSE isAnalyzing

\* ------------------------------------------------------------------ initial state of the orchestrator
AnalyzerInit ==
  /\ analyzerRev \in {"js", "p000", "p006"}
  /\ moveHistory = <<>>
  /\ analysisData = [i \in MoveIndex |-> NoResult]
  /\ analysisCache = <<>>
  /\ pendingAnalysis = {}
  /\ calls = [cl \in Callers |-> IdleCall]
  /\ batch = [pc |-> "idle", i |-> 0, outcome |-> ""]
  /\ isAnalyzing = FALSE
  /\ dropTimers = 0
  /\ last = NoReturn
  /\ prior = [x \in Idents |-> NoResult]

\* ------------------------------------------------------------------ specifications
EngineCallers ==
  \/ init
  \/ analyze
  \/ analyzeMultiPV
  \/ processQueueTimer
  \/ \E t \in ReqId : timeout(t)
  \/ engineReadyok
  \/ engineBestmove

NextEngine ==
  \/ EngineCallers
  \/ stop
  \/ clearQueue

\* the engine each orchestrator is deployed with
Pairing == engineRev = IF analyzerRev = "p006" THEN "reject" ELSE "queue"

\* each Engine Session on its own, its orchestrator at rest
EngineAlone ==
  EngineInit /\ AnalyzerInit /\ CalcIdle /\ Pairing /\ analyzerRev # "p000"

\* analyze() calls, engine output and timeouts only
SpecCallers == EngineAlone /\ [][EngineCallers]_vars

\* the same with stop() and clearQueue()
SpecEngine == EngineAlone /\ [][NextEngine]_vars

\* with the scheduling the event loop guarantees: an armed timer fires
FairEngine ==
  /\ SpecEngine
  /\ \A t \in ReqId : WF_vars(timeout(t))
  /\ WF_vars(processQueueTimer)

\* ------------------------------------------------------------------ Engine Session claims
Range(s) == {s[i] : i \in 1..Len(s)}

IsAnalyzeCall == nreq' = nreq + 1
IsStopCall == nstop' = nstop + 1
IsTimeoutOf(t) == t \in timers /\ t \notin timers' /\ answered' = answered

C2_EveryAcceptedSettles ==
  \A r \in ReqId : (promise[r] = "pending") ~> (promise[r] # "pending")

\* the order in which requests were started, followed by the waiting ones
ServiceOrder == [i \in 1..Len(GoOrder) |-> GoOrder[i].req] \o queue

StrictlyIncreasing(s) == \A i, j \in 1..Len(s) : i < j => s[i] < s[j]

QueuedNotRejected ==
  (IsAnalyzeCall /\ worker /\ ready /\ InFlight # {})
    => /\ promise'[nreq'] = "pending"
       /\ nreq' \in Range(queue')

C4_NotReadyRejected ==
  [][/\ (IsAnalyzeCall /\ ~(worker /\ ready))
        => /\ promise'[nreq'] = "Engine not ready"
           /\ UNCHANGED <<queue, posted, busy, timers, pqTimers>>
     /\ (ready' /\ ~ready) => (readyokSent' /\ ~readyokSent)]_vars

\* C4 witness: one call was rejected while the worker existed without
\* readyok, another before any worker existed or likewise, and the session
\* became ready afterwards and accepted a call
C4_Witness ==
  /\ promise[1] = "Engine not ready"
  /\ promise[2] = "Engine not ready"
  /\ ready
  /\ promise[3] = "pending"

\* C5: a timeout firing for a pending request rejects it with the timeout
\* failure and clears busy, and the session is never idle with tasks waiting
\* and no dequeue scheduled.
C5_TimeoutRecovers ==
  [][/\ \A t \in ReqId :
          (IsTimeoutOf(t) /\ promise[t] = "pending")
            => /\ promise'[t] = "Analysis timeout"
               /\ ~busy'
     /\ (~busy' /\ queue' # <<>>) => pqTimers' > 0]_vars

\* C5 witness: a request timed out with another waiting, and the waiting one
\* has been started
C5_Witness ==
  \E r, t \in ReqId :
    /\ engineRev = "queue"
    /\ promise[r] = "Analysis timeout"
    /\ r < t
    /\ t \in InFlight

\* C6 as stated: stop() with a request in flight posts stop, rejects the
\* in-flight request at once and leaves the session not busy.
C6_StopFailsInFlight ==
  [][(IsStopCall /\ InFlight # {} /\ busy)
       => /\ posted' = Append(posted, Cmd("stop", 0))
          /\ \A r \in InFlight : promise'[r] \notin {"pending", "resolved"}
          /\ ~busy']_vars

\* C6 amended: stop() called while the session is busy posts the stop
\* command and settles nothing: the in-flight request stays pending with its
\* timeout armed; the busy-rejecting revision clears busy at once, the
\* queueing revision leaves it set until the request settles.
C6_StopOnlyPosts ==
  [][(IsStopCall /\ InFlight # {} /\ busy)
       => /\ posted' = Append(posted, Cmd("stop", 0))
          /\ promise' = promise
          /\ timers' = timers
          /\ busy' = (engineRev = "queue")]_vars

\* C6 witness: stop was the last command posted and the request it was meant
\* for is still pending
C6_Witness ==
  /\ nstop > 0
  /\ posted # <<>>
  /\ posted[Len(posted)].cmd = "stop"
  /\ InFlight # {}

\* C21: a request is resolved only by the bestmove line of its own search,
\* never by a late line of the search of a request that timed out or was
\* stopped before
C21_ResolvedByOwnSearch ==
  [][\A t \in ReqId :
       (promise[t] = "pending" /\ promise'[t] = "resolved")
         => (PendingSearches # <<>> /\ PendingSearches[1].req = t)]_vars

\* the places in the command stream of the commands of request r
CommandsOf(r) == {i \in 1..Len(posted) : posted[i].req = r}

\* C25: each serviced request sends exactly one ucinewgame, one position and
\* one go command, in that order, and no command of another request comes
\* between them
C25_OneExchangePerRequest ==
  \A r \in ReqId :
    /\ (r \in Started \/ promise[r] \in {"resolved", "Analysis timeout"})
         => CommandsOf(r) # {}
    /\ CommandsOf(r) # {} =>
         \E i \in 1..Len(posted) :
           /\ CommandsOf(r) = {i, i + 1, i + 2}
           /\ posted[i].cmd = "ucinewgame"
           /\ posted[i + 1].cmd = "position"
           /\ posted[i + 2].cmd = "go"

\* C25 witness: three requests were serviced, one of them after waiting in
\* the queue, with a stop command posted along the way
C25_Witness ==
  /\ Len(GoOrder) = MaxReq
  /\ nstop > 0
  /\ \A r \in ReqId : promise[r] \in {"resolved", "Analysis timeout"}

\* C36: in the busy-rejecting revision the timeout callback of a request
\* clears the busy flag and removes the message handler only of that request:
\* when it runs, no later request holds the session.
C36_TimerOfOwnRequest ==
  [][\A t \in ReqId :
       (engineRev = "reject" /\ IsTimeoutOf(t)) =>
         /\ handlerReq \in {0, t}
         /\ busy => InFlight \subseteq {t}]_vars

\* ------------------------------------------------------------------ Analysis Orchestrator
\* the activations in progress
Active == {cl \in Callers : calls[cl].pc # "idle"}

\* pendingAnalysis after the test and the add at the head of part_006's
\* analyzeSingleMove
PendingAfterStart(idx) ==
  IF analyzerRev = "p006" /\ ready /\ idx \notin pendingAnalysis
  THEN pendingAnalysis \cup {idx} ELSE pendingAnalysis

\* BoardManager.onDrop: the move is appended and the analysis of the last move
\* is scheduled
onDrop ==
  /\ dropTimers = 0
  /\ \E m \in DropMoves(moveHistory) : moveHistory' = Append(moveHistory, m)
  /\ dropTimers' = dropTimers + 1
  /\ last' = NoReturn
  /\ UNCHANGED <<analyzerRev, analysisData, analysisCache, pendingAnalysis,
                 calls, batch, isAnalyzing, prior>>
  /\ UNCHANGED <<engineVars, calcVars>>

\* the callback of onDrop's timer: analyzeSingleMove(STATE.currentMoveIndex)
autoAnalyze ==
  /\ dropTimers > 0
  /\ calls["ui"].pc = "idle"
  /\ Active = {}
  /\ Len(moveHistory) > 0
  /\ dropTimers' = dropTimers - 1
  /\ Commit("ui", StartCall(Len(moveHistory) - 1),
            PendingAfterStart(Len(moveHistory) - 1), batch.i)
  /\ UNCHANGED <<analyzerRev, moveHistory>>
  /\ UNCHANGED <<engineVars, calcVars>>

\* the same callback while the call of a pass of analyzeAllMoves is in progress
autoAnalyzeDuringPass ==
  /\ dropTimers > 0
  /\ calls["ui"].pc = "idle"
  /\ calls["batch"].pc # "idle"
  /\ dropTimers' = dropTimers - 1
  /\ Commit("ui", StartCall(Len(moveHistory) - 1),
            PendingAfterStart(Len(moveHistory) - 1), batch.i)
  /\ UNCHANGED <<analyzerRev, moveHistory>>
  /\ UNCHANGED <<engineVars, calcVars>>

\* PGNManager.loadPGN: the game and its analysis data are replaced; a game is
\* loaded while no analysis is in progress
loadPGN ==
  /\ Active = {}
  /\ \E g \in Games : moveHistory' = g
  /\ analysisData' = [i \in MoveIndex |-> NoResult]
  /\ last' = NoReturn
  /\ UNCHANGED <<analyzerRev, analysisCache, pendingAnalysis, calls, batch,
                 isAnalyzing, dropTimers, prior>>
  /\ UNCHANGED <<engineVars, calcVars>>

clearCache ==
  /\ analysisCache # <<>>
  /\ analysisCache' = <<>>
  /\ prior' = [x \in Idents |-> NoResult]
  /\ last' = NoReturn
  /\ UNCHANGED <<analyzerRev, moveHistory, analysisData, pendingAnalysis,
                 calls, batch, isAnalyzing, dropTimers>>
  /\ UNCHANGED <<engineVars, calcVars>>

\* "STATE.analysisData[i] && STATE.analysisData[i].classification"
Analysed(i) == analysisData[i].kind \in {"full", "degraded"}

\* the loop taking the last move still to analyse instead of the first
MutBatchLoopLast(i0) ==
  LET todo == {j \in MoveIndex : j >= i0 /\ j < Len(moveHistory) /\ ~Analysed(j)}
  IN  IF todo = {}
      THEN /\ batch' = [pc |-> "idle", i |-> Len(moveHistory),
                        outcome |-> "complete"]
           /\ isAnalyzing' = FALSE
           /\ last' = [via |-> "stats", of |-> <<>>,
                       ret |-> calculateStatistics(analysisData, moveHistory)]
           /\ UNCHANGED <<analysisData, analysisCache, pendingAnalysis, calls,
                          prior>>
      ELSE LET j == CHOOSE j \in todo : \A k \in todo : j >= k
           IN  Commit("batch", StartCall(j), PendingAfterStart(j), j)

\* the loop of analyzeAllMoves from index i0 to its next suspension: the
\* analysed moves are skipped and the first other one is analysed; past the
\* last move the pass ends with the statistics, which `last` shows
BatchLoop(i0) ==
  LET todo == {j \in MoveIndex : j >= i0 /\ j < Len(moveHistory) /\ ~Analysed(j)}
  IN  IF todo = {}
      THEN /\ batch' = [pc |-> "idle", i |-> Len(moveHistory),
                        outcome |-> "complete"]
           /\ isAnalyzing' = FALSE
           /\ last' = [via |-> "stats", of |-> <<>>,
                       ret |-> calculateStatistics(analysisData, moveHistory)]
           /\ UNCHANGED <<analysisData, analysisCache, pendingAnalysis, calls,
                          prior>>
      ELSE LET j == CHOOSE j \in todo : \A k \in todo : j <= k
           IN  Commit("batch", StartCall(j), PendingAfterStart(j), j)

\* UIManager.showAlert('Engine not ready!') and return
NotReadyAlert ==
  /\ last' = [via |-> "alert", of |-> <<>>, ret |-> NoResult]
  /\ UNCHANGED <<analysisData, analysisCache, pendingAnalysis, calls, batch,
                 isAnalyzing, prior>>

\* analyzeAllMoves starting its loop whether or not the engine is ready
MutAnalyzeAllMovesNoReadyTest ==
  /\ ~isAnalyzing
  /\ Active = {}
  /\ Len(moveHistory) > 0
  /\ BatchLoop(0)
  /\ UNCHANGED <<analyzerRev, moveHistory, dropTimers>>
  /\ UNCHANGED <<engineVars, calcVars>>

\* analyzeAllMoves, started by the Analyze button or the A key, which are
\* out of use while STATE.isAnalyzing
analyzeAllMoves ==
  /\ ~isAnalyzing
  /\ Active = {}
  /\ Len(moveHistory) > 0
  /\ IF ~ready THEN NotReadyAlert ELSE BatchLoop(0)
  /\ UNCHANGED <<analyzerRev, moveHistory, dropTimers>>
  /\ UNCHANGED <<engineVars, calcVars>>

\* the delay between two moves of the pass is over
batchDelayDone ==
  /\ batch.pc = "delay"
  /\ Active = {}
  /\ BatchLoop(batch.i + 1)
  /\ UNCHANGED <<analyzerRev, moveHistory, dropTimers>>
  /\ UNCHANGED <<engineVars, calcVars>>

\* js: the delay(500) of the wait for the engine is over
waitDone(cl) ==
  /\ calls[cl].pc = "wait"
  /\ Commit(cl, WaitTurn(calls[cl]), pendingAnalysis, batch.i)
  /\ UNCHANGED <<analyzerRev, moveHistory, dropTimers>>
  /\ UNCHANGED <<engineVars, calcVars>>

\* the delay before the request of a stage is over
delayDone(cl) ==
  /\ calls[cl].pc = "delay"
  /\ Commit(cl, Enter(calls[cl]), pendingAnalysis, batch.i)
  /\ UNCHANGED <<analyzerRev, moveHistory, dropTimers>>
  /\ UNCHANGED <<engineVars, calcVars>>

\* part_006: the delay(500) of safeAnalyze is over
retryDone(cl) ==
  /\ calls[cl].pc = "retry"
  /\ Commit(cl, Issue(calls[cl]), pendingAnalysis, batch.i)
  /\ UNCHANGED <<analyzerRev, moveHistory, dropTimers>>
  /\ UNCHANGED <<engineVars, calcVars>>

\* the Engine Session resolves the awaited request
requestResolves(cl) ==
  /\ calls[cl].pc = "await"
  /\ \E r \in EngineResults(StageFen(calls[cl]), Stages[calls[cl].stage].depth) :
       Commit(cl, Resolved(calls[cl], r), pendingAnalysis, batch.i)
  /\ UNCHANGED <<analyzerRev, moveHistory, dropTimers>>
  /\ UNCHANGED <<engineVars, calcVars>>

\* the Engine Session rejects the awaited request (timeout, or busy)
requestRejects(cl) ==
  /\ calls[cl].pc = "await"
  /\ Commit(cl, Rejected(calls[cl]), pendingAnalysis, batch.i)
  /\ UNCHANGED <<analyzerRev, moveHistory, dropTimers>>
  /\ UNCHANGED <<engineVars, calcVars>>

NextAnalyzer ==
  \/ init
  \/ engineReadyok
  \/ onDrop
  \/ autoAnalyze
  \/ loadPGN
  \/ clearCache
  \/ analyzeAllMoves
  \/ batchDelayDone
  \/ \E cl \in Callers : delayDone(cl)
  \/ \E cl \in Callers : requestResolves(cl)
  \/ \E cl \in Callers : requestRejects(cl)

NextUltimate ==
  \/ NextAnalyzer
  \/ \E cl \in Callers : retryDone(cl)

\* the orchestrator of src/js/moveAnalyzer.js, one activation of
\* analyzeSingleMove at a time
InitJs ==
  EngineInit /\ AnalyzerInit /\ CalcIdle /\ Pairing /\ analyzerRev = "js"

SpecAnalyzerJs == InitJs /\ [][NextAnalyzer]_vars

\* the same with a move played, and analysed, during a pass
NextOverlap ==
  \/ NextAnalyzer
  \/ autoAnalyzeDuringPass
  \/ \E cl \in Callers : waitDone(cl)

SpecOverlapJs == InitJs /\ [][NextOverlap]_vars

\* the orchestrator of part_000
InitP000 ==
  EngineInit /\ AnalyzerInit /\ CalcIdle /\ Pairing /\ analyzerRev = "p000"

SpecAnalyzerP000 == InitP000 /\ [][NextAnalyzer]_vars

\* the orchestrator of part_006
InitP006 ==
  EngineInit /\ AnalyzerInit /\ CalcIdle /\ Pairing /\ analyzerRev = "p006"

SpecAnalyzerP006 == InitP006 /\ [][NextUltimate]_vars

\* a game is loaded while no pass of analyzeAllMoves is running
loadPGNBetweenPasses == batch.pc = "idle" /\ loadPGN

\* the orchestrator of src/js/moveAnalyzer.js with an Engine Session that
\* resolves every request, and passes that run on one game
NextNoFailure ==
  \/ init
  \/ engineReadyok
  \/ onDrop
  \/ autoAnalyze
  \/ loadPGNBetweenPasses
  \/ clearCache
  \/ analyzeAllMoves
  \/ batchDelayDone
  \/ \E cl \in Callers : delayDone(cl)
  \/ \E cl \in Callers : requestResolves(cl)

SpecNoFailureJs == InitJs /\ [][NextNoFailure]_vars

\* PGNManager.loadPGN while an activation of analyzeSingleMove is suspended
\* at one of its awaits
loadPGNDuringAnalysis ==
  /\ Active # {}
  /\ \E g \in Games : moveHistory' = g
  /\ analysisData' = [i \in MoveIndex |-> NoResult]
  /\ last' = NoReturn
  /\ UNCHANGED <<analyzerRev, analysisCache, pendingAnalysis, calls, batch,
                 isAnalyzing, dropTimers, prior>>
  /\ UNCHANGED <<engineVars, calcVars>>

\* the orchestrator of src/js/moveAnalyzer.js with games loaded at any time
NextReplace ==
  \/ NextAnalyzer
  \/ loadPGNDuringAnalysis

SpecReplaceJs == InitJs /\ [][NextReplace]_vars

\* ------------------------------------------------------------------ Analysis Orchestrator claims
\* the step starts an activation of caller cl that misses the cache and goes
\* on to its Engine Session requests
StartsRequests(cl) ==
  /\ calls[cl].pc = "idle"
  /\ calls'[cl].pc \in {"delay", "await"}

\* the step is a cache hit of an activation for a move whose last activation
\* returned a record of one of the kinds
HitAfter(kinds) == last'.via = "hit" /\ prior[last'.of].kind \in kinds

\* C7 (as amended): when the last call of analyzeSingleMove for a move returned
\* a full MoveAnalysis and neither clearCache() nor an eviction removed its
\* entry since, the next call for the same move issues no Engine Session
\* request and returns the identical record
C7_FullRecordServedAgain ==
  [][/\ \A cl \in Callers :
          StartsRequests(cl) => prior[IdentOf(calls'[cl])].kind # "full"
     /\ HitAfter({"full"}) => last'.ret = prior[last'.of]]_vars

\* C7 as stated: whatever the first call returned, the second call for the
\* same move issues no Engine Session request and returns the identical record
C7_AnyRecordServedAgain ==
  [][/\ \A cl \in Callers :
          StartsRequests(cl)
            => prior[IdentOf(calls'[cl])].kind \notin {"full", "degraded"}
     /\ HitAfter({"full", "degraded"}) => last'.ret = prior[last'.of]]_vars

\* a call has just returned, from the cache, the record an earlier call for the
\* same move computed
C7_Witness ==
  /\ last.via = "hit"
  /\ last.ret.kind = "full"
  /\ last.ret.of = last.of
  /\ prior[last.of] = last.ret

\* C8: a cache lookup returns only a record that was computed for the same
\* position before and the same move (origin, destination, promotion piece)
C8_HitIsForTheMove ==
  last.via = "hit" => (last.ret.kind = "full" /\ last.ret.of = last.of)

\* C9: the cache never holds more than CACHE_MAX_SIZE entries, and a store
\* that would exceed it evicts the oldest entry, never the one just written
C9_CacheBounded ==
  /\ [](Len(analysisCache) <= CACHE_MAX_SIZE)
  /\ [][\A k \in CacheKeys(analysisCache') \ CacheKeys(analysisCache) :
          /\ analysisCache'[Len(analysisCache')].key = k
          /\ Len(analysisCache) = CACHE_MAX_SIZE
                => analysisCache' = Append(Tail(analysisCache),
                                           analysisCache'[Len(analysisCache')])
       ]_vars

\* C10: a failed analysis of a move returns the degraded record of tier
\* 'good', nothing is thrown, and analyzeAllMoves does not abort its pass
C10_FailureIsDegraded ==
  /\ last.via # "threw"
  /\ last.via = "failed" => last.ret = Degraded
  /\ batch.outcome # "aborted"

\* the step starts the analysis of a move by analyzeAllMoves
BatchStarts ==
  /\ batch.pc \in {"idle", "delay"}
  /\ batch'.pc \in {"await", "delay"}
  /\ batch' # batch

C13_NotReadyFailsFast ==
  [][~ready =>
       /\ \A cl \in Callers : calls'[cl].pc = "idle"
       /\ batch' = batch
       /\ isAnalyzing' = isAnalyzing
       /\ last'.via \in {"", "alert", "null"}
       /\ (last'.via = "null" /\ UNCHANGED <<engineVars, calcVars>>)
            => dropTimers' = dropTimers - 1]_vars

\* the Analyze button was pressed on a game with moves, the engine not ready
C13_Witness ==
  /\ ~ready
  /\ moveHistory # <<>>
  /\ last.via = "alert"
  /\ ~isAnalyzing

\* the moves a pass in its delay after move batch.i would still analyse
MovesLeft ==
  {j \in MoveIndex : j > batch.i /\ j < Len(moveHistory) /\ ~Analysed(j)}

\* the step ends the pass
PassEnds == batch'.pc = "idle"

\* C12: between two moves a pass can be cancelled: with moves left to
\* analyse, the pass can end, on request, without starting the next one
C12_CancellableBetweenMoves ==
  (batch.pc = "delay" /\ MovesLeft # {}) => ENABLED (NextAnalyzer /\ PassEnds)

\* the tiers in the order classify() tries them, best first
TierRank ==
  [book |-> 0, brilliant |-> 1, best |-> 2, great |-> 3, good |-> 4,
   inaccuracy |-> 5, mistake |-> 6, blunder |-> 7]

\* the analysis stored for move 0 is the one of white's move W1 with the
\* engine scoring -50 before it and +40 after it, each for the side to move
FirstMoveScenario ==
  /\ analysisData[0].kind = "full"
  /\ analysisData[0].of = Ident(<<>>, W1)
  /\ analysisData[0].prevEval = -50
  /\ analysisData[0].currEval = 40

\* C15: for white's move at index 0 with scores -50 before and +40 after, the
\* record has evalBefore -50, evalAfter -40 and cpLoss 0, and its tier is
\* 'best' or one tried before it
C15_PerspectiveCorrected ==
  FirstMoveScenario =>
    /\ analysisData[0].evalBefore = -50
    /\ analysisData[0].evalAfter = -40
    /\ analysisData[0].cpLoss = 0
    /\ TierRank[analysisData[0].classification] <= TierRank["best"]

C15_Witness ==
  /\ FirstMoveScenario
  /\ last.via = "computed"
  /\ last.ret = analysisData[0]

\* the analysed moves of a player, by move index
MovesOf(color) ==
  {i \in MoveIndex : /\ Analysed(i)
                     /\ i < Len(moveHistory)
                     /\ moveHistory[i + 1].color = color}

RECURSIVE LossOf(_)
LossOf(S) ==
  IF S = {} THEN 0
  ELSE LET i == CHOOSE i \in S : TRUE
       IN  Max(0, analysisData[i].cpLoss) + LossOf(S \ {i})

\* C18: the statistics stored at the end of a pass give each player the ACPL
\* and the tier counts of exactly that player's analysed moves, also when
\* the analysed indices have gaps; a player without analysed moves has
\* ACPL 0, accuracy 100 and no counts
C18_StatisticsPerPlayer ==
  (last.via = "stats" /\ last.ret # NoResult) =>
    \A color \in {"w", "b"} :
      LET mine == MovesOf(color)
          stats == last.ret[color]
      IN  /\ stats.acpl = IF mine = {} THEN 0
                          ELSE RoundHalfUp(LossOf(mine), Cardinality(mine))
          /\ \A t \in DOMAIN stats.counts :
                stats.counts[t] =
                  Cardinality({i \in mine : analysisData[i].classification = t})
          /\ mine = {} => stats.accuracy = 1000

\* C19: the win-probability loss computed for evaluations the orchestrator
\* passes lies within [0, 100] (here in thousandths of a percent), and is 0
\* when the two evaluations are equal
C19_WinProbLossInRange ==
  \A i \in MoveIndex :
    analysisData[i].kind = "full" =>
      /\ analysisData[i].winProbLoss =
           calculateWinProbLoss(analysisData[i].evalBefore, analysisData[i].evalAfter)
      /\ analysisData[i].winProbLoss >= 0
      /\ analysisData[i].winProbLoss <= 100000
      /\ analysisData[i].evalBefore = analysisData[i].evalAfter
           => analysisData[i].winProbLoss = 0

\* C22: with engine scores given from the side to move, evalBefore and
\* evalAfter are the mover's own evaluations, for white and for black moves,
\* so cpLoss is positive exactly when the mover's evaluation dropped
C22_MoversPerspective ==
  \A i \in MoveIndex :
    analysisData[i].kind = "full" =>
      /\ analysisData[i].evalBefore = analysisData[i].prevEval
      /\ analysisData[i].evalAfter = -analysisData[i].currEval
      /\ analysisData[i].cpLoss > 0
           <=> analysisData[i].prevEval > -analysisData[i].currEval

\* C29: the requests of one activation of analyzeSingleMove follow the stages
\* in order (quick, standard, deep: depths never decrease), the activation
\* moves to the next stage only in the step that settles the request of the
\* stage before, and a request is issued only while no request of the
\* activation is outstanding.
C29_RequestsInOrder ==
  [][\A cl \in Callers :
       LET c == calls[cl]
           n == calls'[cl]
       IN  /\ (n.pc = "await" /\ c.pc = "await") => n = c
           /\ (n.pc = "await" /\ c.pc # "await") =>
                /\ c.pc \in {"idle", "wait", "delay", "retry"}
                /\ n.stage = IF c.pc \in {"idle", "wait"} THEN 1 ELSE c.stage
           /\ (n.pc # "idle" /\ n.stage # c.stage) =>
                /\ n.stage = c.stage + 1
                /\ c.stage >= 1 =>
                     /\ c.pc = "await"
                     /\ Stages[n.stage].depth >= Stages[c.stage].depth]_vars

\* the deep request of an activation is outstanding
C29_Witness ==
  \E cl \in Callers :
    /\ calls[cl].pc = "await"
    /\ calls[cl].stage = 5
    /\ Stages[calls[cl].stage].depth = 24

\* the activation of caller cl awaits the deep request of part_006
AwaitsDeep(cl) ==
  /\ analyzerRev = "p006"
  /\ calls[cl].pc = "await"
  /\ calls[cl].stage = Len(Stages)

\* the step returns a full MoveAnalysis computed from the answer r for the
\* position before the move
ReturnsFrom(cl, r) ==
  LET move == calls[cl].move
      ret == last'.ret
  IN  /\ last'.via = "computed"
      /\ ret.kind = "full"
      /\ ret.classification \in DOMAIN TierRank
      /\ ret.prevEval = r.score
      /\ ret.evalBefore = IF move.color = "b" THEN -r.score ELSE r.score
      /\ ret.bestMove = r.bestMove
      /\ ret.wasBestMove = (r.bestMove = Uci(move))
      /\ ret.alternatives = r.alternatives
      /\ ret.depth = r.depth
      /\ analysisData'[calls[cl].idx] = ret

\* C30: when the last attempt of the deep request fails, the activation
\* returns a full, classified MoveAnalysis computed from the standard answer
\* for the position before the move; when the deep request resolves, from the
\* deep answer.
C30_DeepFallsBackToStandard ==
  [][\A cl \in Callers :
       AwaitsDeep(cl) =>
         /\ (requestRejects(cl) /\ calls[cl].attempt = RETRIES) =>
              /\ calls[cl].prev.depth = 18
              /\ ReturnsFrom(cl, calls[cl].prev)
         /\ requestResolves(cl) =>
              \E r \in EngineResults(calls[cl].prevFen, 24) :
                ReturnsFrom(cl, r)]_vars

\* an activation has just returned the analysis computed from the standard
\* answer
C30_Witness ==
  /\ analyzerRev = "p006"
  /\ last.via = "computed"
  /\ last.ret.kind = "full"
  /\ last.ret.depth = 18


\* the statistics computed in the last step (STATE.gameStats is assigned
\* nowhere else)
StatisticsComputed == IF last.via = "stats" THEN last.ret ELSE NoResult

\* the step in which analyzeSingleMove(i) returns to the loop of a pass that
\* has other moves to analyse after it
MoveOfPassReturns ==
  /\ batch.pc = "await"
  /\ batch'.pc = "delay"
  /\ \E j \in MoveIndex :
       j > batch'.i /\ j < Len(moveHistory') /\ analysisData'[j] = NoResult

\* C33: during a pass the statistics are recomputed after every analysed
\* move: the step in which the analysis of a move returns to the loop computes
\* the statistics of the moves analysed so far.
C33_StatisticsAfterEveryMove ==
  [][MoveOfPassReturns =>
       /\ StatisticsComputed' # NoResult
       /\ StatisticsComputed' = calculateStatistics(analysisData', moveHistory')]_vars

\* the step ends a pass of analyzeAllMoves that ran to the end of its loop
PassCompletes ==
  /\ batch.pc # "idle"
  /\ batch'.pc = "idle"
  /\ batch'.outcome = "complete"

\* C34: when a pass of analyzeAllMoves completes and no request failed, every
\* move of the move list has a classified record in the analysis table,
\* whether it was computed in the pass or served from the cache.
C34_CompletePassFillsTable ==
  [][PassCompletes =>
       \A i \in MoveIndex :
         i < Len(moveHistory') =>
           analysisData'[i].kind \in {"full", "degraded"}]_vars

\* C35: every full record of the analysis table stands at the index of the
\* move it was computed for, in the move list that is current: no analysis of
\* a game that has been replaced is written into the table of the new game.
C35_StoredForCurrentGame ==
  \A i \in MoveIndex :
    analysisData[i].kind = "full" =>
      /\ i < Len(moveHistory)
      /\ analysisData[i].of = Ident(Replay(i), moveHistory[i + 1])

\* ------------------------------------------------------------------ Move Classifier on its own
\* the records classify() is applied to: centipawn losses around every
\* threshold, the three phases, with and without alternatives, tactical and
\* position data
CpLosses == {-30, 0, 5, 12, 17, 20, 22, 27, 45, 90, 180, 280}

Evals == {<<-50, 100>>, <<40, 40>>, <<450, 300>>, <<100, -250>>}

AlternativeLists ==
  {<<>>, <<[score |-> 120], [score |-> -10]>>, <<[score |-> 20], [score |-> 15]>>}

Tacticals == {NoResult, [tacticalScore |-> 19], [tacticalScore |-> 50]}

Positions ==
  {NoResult} \cup {[phase |-> ph, isTactical |-> FALSE, materialBalance |-> 0] :
                     ph \in {"middlegame", "endgame"}}

MoveDatas ==
  {[moveIndex |-> i, move |-> [color |-> col], cpLoss |-> cp,
    evalBefore |-> ev[1], evalAfter |-> ev[2], materialLoss |-> ml,
    alternatives |-> alts, wasBestMove |-> best, totalMoves |-> 35,
    position |-> pos, tactical |-> tac] :
     i \in {0, 12, 30}, col \in {"w", "b"}, cp \in CpLosses, ev \in Evals,
     ml \in {0, 900}, alts \in AlternativeLists, best \in BOOLEAN,
     pos \in Positions, tac \in Tacticals}

\* the call has returned v
Returned(v) == [kind |-> "returned", value |-> v]

\* MoveClassifier.classify(moveData)
classifyMove ==
  /\ input \in MoveDatas
  /\ output = NoResult
  /\ output' = Returned(classify(input))
  /\ UNCHANGED <<input, engineVars, analyzerVars>>

InitClassifier ==
  /\ EngineInit /\ AnalyzerInit /\ Pairing
  /\ analyzerRev \in {"p000", "p006"}
  /\ input \in MoveDatas
  /\ output = NoResult

NextClassifier == classifyMove

\* the classifier of part_006 (analyzerRev "p006") and the one of
\* src/js/boardManager.js (analyzerRev "p000") applied to every record
SpecClassifier == InitClassifier /\ [][NextClassifier]_vars

\* ------------------------------------------------------------------ Move Classifier claims
\* a queen given up for a winning attack: material loss 900, cpLoss 0 (the
\* evaluation rises from -50 to 100), two alternatives 130 apart, complexity
\* 16 + 20 + 19 = 55
SacrificeRecord ==
  [moveIndex |-> 12, move |-> [color |-> "w"], cpLoss |-> 0,
   evalBefore |-> -50, evalAfter |-> 100, materialLoss |-> 900,
   alternatives |-> <<[score |-> 120], [score |-> -10]>>,
   wasBestMove |-> FALSE, totalMoves |-> 35,
   position |-> [phase |-> "endgame", isTactical |-> FALSE,
                 materialBalance |-> 0],
   tactical |-> [tacticalScore |-> 19]]

\* C14: the sacrifice with clamped cpLoss 0, gap 130, complexity 55 and
\* evaluation gain and swing above their minima is classified 'brilliant'
C14_SacrificeIsBrilliant ==
  (/\ analyzerRev = "p006"
   /\ input = SacrificeRecord
   /\ calculateComplexity(input) = 55
   /\ output # NoResult) => output.value = "brilliant"

\* the tier of the classified record is no worse than the tier of the same
\* record with any higher centipawn loss
NoWorseThanHigherLoss ==
  \A c2 \in CpLosses :
    (input.cpLoss >= 0 /\ c2 > input.cpLoss) =>
      TierRank[output.value] <= TierRank[classify([input EXCEPT !.cpLoss = c2])]

\* C16: of two records that differ only in cpLoss, the one with the lower
\* cpLoss never receives a strictly worse tier
C16_MonotoneInCpLoss ==
  output # NoResult => NoWorseThanHigherLoss

\* the condition under which classify() takes the branch that returns tier t
Rule(t, d) ==
  LET wpl == calculateWinProbLoss(d.evalBefore, d.evalAfter)
      old == analyzerRev = "p000"
  IN  CASE t = "book" ->
             /\ detectGamePhase(d) \in {"opening", "OPENING"}
             /\ d.moveIndex < 10
             /\ Abs(d.cpLoss) < (IF old THEN 30 ELSE 25)
        [] t = "brilliant" -> isBrilliant(d)
        [] t = "best" -> isBestMove(d)
        [] t = "great" -> isGreatMove(d)
        [] t = "good" -> d.cpLoss <= Thresholds(d).GOOD_THRESHOLD
        [] t = "inaccuracy" ->
             \/ d.cpLoss <= Thresholds(d).INACCURACY_THRESHOLD
             \/ wpl < (IF old THEN 10000 ELSE 8000)
        [] t = "mistake" ->
             \/ d.cpLoss <= Thresholds(d).MISTAKE_THRESHOLD
             \/ wpl < (IF old THEN 20000 ELSE 15000)
        [] t = "blunder" -> TRUE

\* C17: classify returns, for every record, one of the eight tiers, and it is
\* the first in the order book, brilliant, best, great, good, inaccuracy,
\* mistake, blunder whose rule the record matches
C17_TotalFirstMatch ==
  output # NoResult =>
    /\ output.value \in DOMAIN TierRank
    /\ Rule(output.value, input)
    /\ \A s \in DOMAIN TierRank :
         TierRank[s] < TierRank[output.value] => ~Rule(s, input)

C17_Witness ==
  /\ input.alternatives = <<>>
  /\ input.tactical = NoResult
  /\ input.position = NoResult
  /\ output = Returned("inaccuracy")

\* the great cutoff of the revision: the phase's GREAT_THRESHOLD (part_006),
\* 30 (boardManager.js)
GreatCutoff(d) ==
  IF analyzerRev = "p000" THEN 30 ELSE Thresholds(d).GREAT_THRESHOLD

\* the side conditions of a great move: evaluation gain above the minimum, a
\* strongly favourable position, or enough tactical bonus
GreatSideCondition(d) ==
  IF analyzerRev = "p000"
  THEN EvalGain(d) > 30 \/ Abs(d.evalBefore) > 200
  ELSE \/ EvalGain(d) > GREAT.MIN_EVAL_GAIN
       \/ Abs(d.evalBefore) > GREAT.MIN_POSITION_SCORE
       \/ Present(d.tactical) /\ d.tactical.tacticalScore > 40

\* C31: a move classified 'great' has a cpLoss at or under the great cutoff
\* and meets at least one of the three side conditions.
C31_GreatNeedsSideCondition ==
  (output # NoResult /\ output.value = "great") =>
    /\ input.cpLoss <= GreatCutoff(input)
    /\ GreatSideCondition(input)

\* ------------------------------------------------------------------ earlier Move Classifier on its own
\* CONFIG.CLASSIFICATION of the earlier revision
CLASSIFICATION_EARLIER ==
  [BOOK_MOVES |-> 10, BEST_THRESHOLD |-> 15, GREAT_THRESHOLD |-> 30,
   GOOD_THRESHOLD |-> 60, INACCURACY_THRESHOLD |-> 150,
   MISTAKE_THRESHOLD |-> 300, BRILLIANT_SACRIFICE_MIN |-> 300,
   BRILLIANT_EVAL_GAIN |-> 50, BRILLIANT_UNIQUENESS |-> 100]

\* isBrilliant of the earlier revision
isBrilliantEarlier(d) ==
  /\ d.materialLoss >= CLASSIFICATION_EARLIER.BRILLIANT_SACRIFICE_MIN
  /\ d.cpLoss <= 0
  /\ Len(d.alternatives) > 1
       => TopGap(d.alternatives) >= CLASSIFICATION_EARLIER.BRILLIANT_UNIQUENESS

\* classify of the earlier revision: thresholds on cpLoss only
classifyEarlier(d) ==
  LET C == CLASSIFICATION_EARLIER
  IN  IF d.moveIndex < C.BOOK_MOVES THEN "book"
      ELSE IF isBrilliantEarlier(d) THEN "brilliant"
      ELSE IF Abs(d.cpLoss) <= C.BEST_THRESHOLD THEN "best"
      ELSE IF d.cpLoss <= C.GREAT_THRESHOLD THEN "great"
      ELSE IF d.cpLoss <= C.GOOD_THRESHOLD THEN "good"
      ELSE IF d.cpLoss <= C.INACCURACY_THRESHOLD THEN "inaccuracy"
      ELSE IF d.cpLoss <= C.MISTAKE_THRESHOLD THEN "mistake"
      ELSE "blunder"

\* MoveClassifier.classify(moveData) of the earlier revision
classifyEarlierMove ==
  /\ input \in MoveDatas
  /\ output = NoResult
  /\ output' = Returned(classifyEarlier(input))
  /\ UNCHANGED <<input, engineVars, analyzerVars>>

NextClassifierEarlier == classifyEarlierMove

SpecClassifierEarlier == InitClassifier /\ [][NextClassifierEarlier]_vars

\* C32: a move that equals the engine's top choice is classified book,
\* brilliant or best, whatever its cpLoss.
C32_TopChoiceAtLeastBest ==
  (output # NoResult /\ input.wasBestMove) =>
    output.value \in {"book", "brilliant", "best"}

\* ------------------------------------------------------------------ accuracy on its own
MaxAcpl == 149

\* the two calculateAccuracy functions
AccuracyOf(fn, acpl) ==
  IF fn = "simple" THEN calculateAccuracySimple(acpl) ELSE calculateAccuracy(acpl)

AccuracyInputs == [fn : {"ultimate", "simple"}, acpl : 0..MaxAcpl]

\* an ACPL is turned into an accuracy
accuracyCall ==
  /\ input \in AccuracyInputs
  /\ output = NoResult
  /\ output' = Returned(AccuracyOf(input.fn, input.acpl))
  /\ UNCHANGED <<input, engineVars, analyzerVars>>

InitAccuracy ==
  /\ EngineInit
  /\ AnalyzerInit
  /\ Pairing
  /\ analyzerRev = "js"
  /\ input \in AccuracyInputs
  /\ output = NoResult

NextAccuracy == accuracyCall

SpecAccuracy == InitAccuracy /\ [][NextAccuracy]_vars

\* C20: calculateAccuracy(0) is 100, the result lies within [0, 100] (here
\* in tenths of a percent), and no higher ACPL gives a higher accuracy
C20_AccuracyMonotone ==
  (input \in AccuracyInputs /\ output # NoResult) =>
    /\ input.acpl = 0 => output.value = 1000
    /\ output.value >= 0
    /\ output.value <= 1000
    /\ \A a \in 0..MaxAcpl :
         a >= input.acpl => AccuracyOf(input.fn, a) <= output.value

C20_Witness ==
  /\ input \in AccuracyInputs
  /\ input.acpl > 0
  /\ output # NoResult
  /\ output.value < 1000
  /\ output.value > 0

\* ------------------------------------------------------------------ output parser on its own
\* The message handler a request installs, applied to the lines the worker
\* sends during one request. An info line is given by its fields:
\*   depth    the number after "depth"
\*   multipv  the number after "multipv" (0: the line has no multipv field)
\*   score    "score cp N", "score mate N" or neither
\*   pv       the first move after " pv " ("": the line has no pv)
MaxLines == 2
MaxPV == 2

ScoreFields ==
  {[type |-> "none", value |-> 0], [type |-> "cp", value |-> 10],
   [type |-> "cp", value |-> 30], [type |-> "mate", value |-> 1]}

InfoLines ==
  [depth : 1..2, multipv : 0..MaxPV, score : ScoreFields,
   pv : {"", "e2e4", "d2d4"}]

LineSeqs == UNION {[1..n -> InfoLines] : n \in 0..MaxLines}

\* the info lines of a request and the move on its bestmove line
ParserInputs == [lines : LineSeqs, bestmove : {"e2e4", "d2d4"}]

\* line.match(/pv\s+(\S+)/)[1] and line.match(/pv (.+)$/)[1].split(' ')[0]:
\* the first "pv" followed by a blank is the end of "multipv" when the line
\* has that field, and what follows it is the line number
pvLineMatch(l) == IF l.multipv # 0 THEN ToString(l.multipv) ELSE l.pv

\* - - - - - - - - - - - - - - - - - - - - - - src/js/stockfishEngine.js
\* result, currentPV and pvResults at the start of runAnalysis; an entry of
\* pvResults without score and move stands for a missing one; mate 0 and
\* bestMove "" stand for null
handlerStart ==
  [score |-> 0, mate |-> 0, bestMove |-> "", depth |-> 0, currentPV |-> 1,
   pvResults |-> [k \in 1..MaxPV |-> [hasScore |-> FALSE, score |-> 0, move |-> ""]]]

\* the handler on a line containing "info depth"
handlerInfo(st, l) ==
  LET currentPV == IF l.multipv # 0 THEN l.multipv ELSE st.currentPV
      cp == l.score.type = "cp"
      mate == l.score.type = "mate"
      pv == l.pv # ""
      e0 == st.pvResults[currentPV]
      e1 == IF cp THEN [e0 EXCEPT !.hasScore = TRUE, !.score = l.score.value]
            ELSE e0
      e2 == IF pv THEN [e1 EXCEPT !.move = pvLineMatch(l)] ELSE e1
  IN  [score |-> IF cp THEN (IF currentPV = 1 THEN l.score.value ELSE st.score)
                 ELSE IF mate
                 THEN (IF l.score.value > 0 THEN 10000 ELSE -10000)
                 ELSE st.score,
       mate |-> IF mate THEN l.score.value ELSE st.mate,
       bestMove |-> IF pv /\ currentPV = 1 THEN pvLineMatch(l) ELSE st.bestMove,
       depth |-> l.depth,
       currentPV |-> currentPV,
       pvResults |-> [st.pvResults EXCEPT ![currentPV] = e2]]

RECURSIVE handlerInfos(_, _, _)
handlerInfos(st, lines, k) ==
  IF k > Len(lines) THEN st
  ELSE handlerInfos(handlerInfo(st, lines[k]), lines, k + 1)

\* Object.keys(pvResults).map(pv => pvResults[pv]).filter(alt => alt.move &&
\* alt.score !== undefined), from key k on
RECURSIVE storedAlternatives(_, _)
storedAlternatives(pvResults, k) ==
  IF k \notin DOMAIN pvResults THEN <<>>
  ELSE (IF pvResults[k].move # "" /\ pvResults[k].hasScore
        THEN <<[score |-> pvResults[k].score, move |-> pvResults[k].move]>>
        ELSE <<>>)
       \o storedAlternatives(pvResults, k + 1)

\* the handler on the line starting with "bestmove": what the request resolves with
handlerBestmove(st, bestmove) ==
  [score |-> st.score, mate |-> st.mate,
   bestMove |-> IF st.bestMove = "" THEN bestmove ELSE st.bestMove,
   alternatives |-> storedAlternatives(st.pvResults, 1),
   depth |-> st.depth]

\* - - - - - - - - - - - - - - - - - - - - - - src/unnamed/part_004
\* results.finalDepth and pvData at the start of analyzeMultiPV; an entry of
\* pvData without move stands for a missing one or one filtered out
multiPVStart ==
  [finalDepth |-> 0,
   pvData |-> [k \in 1..MaxPV |-> [score |-> 0, move |-> "", depth |-> 0, mate |-> 0]]]

multiPVInfo(st, l) ==
  LET pvNum == IF l.multipv # 0 THEN l.multipv ELSE 1
      e0 == [st.pvData[pvNum] EXCEPT !.depth = l.depth]
      e1 == IF l.score.type = "cp" THEN [e0 EXCEPT !.score = l.score.value]
            ELSE IF l.score.type = "mate"
            THEN [e0 EXCEPT !.score = IF l.score.value > 0
                                      THEN 10000 + Abs(l.score.value)
                                      ELSE -10000 - Abs(l.score.value),
                            !.mate = l.score.value]
            ELSE e0
      e2 == IF l.pv # "" THEN [e1 EXCEPT !.move = pvLineMatch(l)] ELSE e1
  IN  [finalDepth |-> Max(st.finalDepth, l.depth),
       pvData |-> [st.pvData EXCEPT ![pvNum] = e2]]

RECURSIVE multiPVInfos(_, _, _)
multiPVInfos(st, lines, k) ==
  IF k > Len(lines) THEN st
  ELSE multiPVInfos(multiPVInfo(st, lines[k]), lines, k + 1)

\* Object.keys(pvData).map(k => pvData[k]).filter(pv => pv.move && ...)
RECURSIVE filteredPVs(_, _)
filteredPVs(pvData, k) ==
  IF k \notin DOMAIN pvData THEN <<>>
  ELSE (IF pvData[k].move # "" THEN <<pvData[k]>> ELSE <<>>)
       \o filteredPVs(pvData, k + 1)

\* .sort((a, b) => b.score - a.score): descending, equal scores keep their order
RECURSIVE InsertByScore(_, _)
InsertByScore(x, s) ==
  IF s = <<>> THEN <<x>>
  ELSE IF Head(s).score >= x.score THEN <<Head(s)>> \o InsertByScore(x, Tail(s))
  ELSE <<x>> \o s

RECURSIVE SortByScore(_, _)
SortByScore(s, n) ==
  IF n = 0 THEN <<>> ELSE InsertByScore(s[n], SortByScore(s, n - 1))

\* the handler on the bestmove line, and analyze()'s mapping of the result
multiPVBestmove(st, bestmove) ==
  LET unsorted == filteredPVs(st.pvData, 1)
      sortedPVs == SortByScore(unsorted, Len(unsorted))
  IN  IF Len(sortedPVs) > 0
      THEN [score |-> sortedPVs[1].score, mate |-> sortedPVs[1].mate,
            bestMove |-> sortedPVs[1].move,
            alternatives |-> Tail(sortedPVs),
            depth |-> st.finalDepth]
      ELSE [score |-> 0, mate |-> 0, bestMove |-> bestmove,
            alternatives |-> <<>>, depth |-> st.finalDepth]

\* what a request resolves with after the lines of in
Resolve(in) ==
  IF engineRev = "queue"
  THEN handlerBestmove(handlerInfos(handlerStart, in.lines, 1), in.bestmove)
  ELSE multiPVBestmove(multiPVInfos(multiPVStart, in.lines, 1), in.bestmove)

\* the lines of one request arrive and the request resolves
parseLines ==
  /\ input \in ParserInputs
  /\ output = NoResult
  /\ output' = Returned(Resolve(input))
  /\ UNCHANGED <<input, engineVars, analyzerVars>>

InitParser ==
  /\ EngineInit
  /\ AnalyzerInit
  /\ Pairing
  /\ analyzerRev \in {"js", "p006"}
  /\ input \in ParserInputs
  /\ output = NoResult

NextParser == parseLines

\* the handler of src/js/stockfishEngine.js (engineRev "queue") and the one
\* of part_004 (engineRev "reject") applied to every sequence of lines
SpecParser == InitParser /\ [][NextParser]_vars

\* ------------------------------------------------------------------ output parser claims
\* the info lines of the request that belong to multi-PV line k; a line
\* without the multipv field belongs to line 1
LinesOf(k) ==
  {j \in 1..Len(input.lines) :
     input.lines[j].multipv = k \/ (k = 1 /\ input.lines[j].multipv = 0)}

\* the scores a result can carry for an info line: the centipawns, or the
\* mate value of either handler
ScoresOf(l) ==
  IF l.score.type = "cp" THEN {l.score.value}
  ELSE IF l.score.type = "mate"
  THEN (IF l.score.value > 0 THEN {10000, 10000 + l.score.value}
        ELSE {-10000, -10000 + l.score.value})
  ELSE {}

\* the lines are those of one finished iteration of a multi-PV search: line
\* 1, 2, ... in turn at one depth, each with a centipawn score and a move of
\* its own, the scores not rising from line to line
OneIteration ==
  LET ls == input.lines
  IN  /\ Len(ls) > 0
      /\ \A j \in 1..Len(ls) :
            /\ ls[j].multipv = j
            /\ ls[j].depth = ls[1].depth
            /\ ls[j].score.type = "cp"
            /\ ls[j].pv # ""
      /\ \A j, k \in 1..Len(ls) :
            j < k => (ls[j].score.value >= ls[k].score.value /\ ls[j].pv # ls[k].pv)

\* C23: in the result of a finished multi-PV iteration the primary score
\* comes from line 1, the alternatives are lines 2..K only, in strictly
\* descending order of score, and no move is there twice
C23_AlternativesFromOtherLines ==
  (output # NoResult /\ OneIteration) =>
    LET r == output.value
        alts == r.alternatives
    IN  /\ r.score \in {0} \cup UNION {ScoresOf(input.lines[j]) : j \in LinesOf(1)}
        /\ Len(alts) <= Cardinality({k \in 2..MaxPV : LinesOf(k) # {}})
        /\ \A a, b \in 1..Len(alts) :
              a < b => (alts[a].score > alts[b].score /\ alts[a].move # alts[b].move)

\* every line is an info line of line 1 with a centipawn score and a move,
\* and no two have the same depth
LineOneAtDepths ==
  LET ls == input.lines
  IN  /\ Len(ls) > 0
      /\ \A j \in 1..Len(ls) :
            ls[j].multipv = 1 /\ ls[j].score.type = "cp" /\ ls[j].pv # ""
      /\ \A j, k \in 1..Len(ls) : j # k => ls[j].depth # ls[k].depth

\* the info line of the highest depth
Deepest ==
  CHOOSE j \in 1..Len(input.lines) :
    \A k \in 1..Len(input.lines) : input.lines[k].depth <= input.lines[j].depth

\* C24: the score retained for a line index and the depth of the result are
\* those of the highest-depth info line seen for it, also when a line of
\* lower depth arrives after one of higher depth
C24_HighestDepthRetained ==
  (output # NoResult /\ LineOneAtDepths) =>
    /\ output.value.score = input.lines[Deepest].score.value
    /\ output.value.depth = input.lines[Deepest].depth

\* no info line of the request carries a score
NoUsableScore ==
  \A j \in 1..Len(input.lines) : input.lines[j].score.type = "none"

\* C26: a bestmove line for a request without a usable score still resolves
\* it, with the move of the bestmove line, score 0 and no alternatives, and
\* the result is flagged as degraded
C26_NoScoreResolvesDegraded ==
  (output # NoResult /\ NoUsableScore) =>
    /\ output.value.bestMove = input.bestmove
    /\ output.value.score = 0
    /\ output.value.alternatives = <<>>
    /\ "degraded" \in DOMAIN output.value

\* result and currentPV before the k-th info line of the request
handlerBefore(k) == handlerInfos(handlerStart, SubSeq(input.lines, 1, k - 1), 1)

\* C39: while stockfishEngine.js parses a request, the primary score changes
\* only on an info line of multi-PV line 1: a centipawn or mate score of an
\* alternative line never overwrites it.
C39_PrimaryScoreFromLineOne ==
  (output # NoResult /\ engineRev = "queue") =>
    \A k \in 1..Len(input.lines) :
      LET after == handlerInfo(handlerBefore(k), input.lines[k])
      IN  after.score # handlerBefore(k).score => after.currentPV = 1

\* ------------------------------------------------------------------ safeAnalyze on its own
\* what one StockfishEngine.analyze of part_004 can settle with under
\* safeAnalyze: a result, the rejection of a request made while another one is
\* in flight, or the rejection of the timer. 'Engine not ready' is left out:
\* analyzeSingleMove tests ready before its first request, and ready is never
\* reset.
Settlements == {"resolved", "Engine busy", "Analysis timeout"}

\* the arguments of a call, and how the session settles each of its requests
SafeInputs ==
  [fen : {<<>>, <<W1>>}, depth : {14, 18, 24},
   settles : [1..RETRIES + 1 -> Settlements]]

\* safeAnalyze(fen, depth) enters the loop and makes its first request;
\* "requests" counts the calls of StockfishEngine.analyze, "caught" and
\* "delays" list the errors caught and the delays awaited
safeAnalyze ==
  /\ input \in SafeInputs
  /\ output = NoResult
  /\ output' = [kind |-> "safeAnalyze", pc |-> "await", attempt |-> 0,
                requests |-> 1, caught |-> <<>>, delays |-> <<>>,
                ret |-> NoResult]
  /\ UNCHANGED <<input, engineVars, analyzerVars>>

\* the catch block that gives up at the first error
MutSafeCatchGivesUp(st, e) ==
  LET seen == [st EXCEPT !.caught = Append(@, e)]
  IN  [seen EXCEPT !.pc = "returned", !.ret = Null]

\* the catch block: every error is handled alike
safeCatch(st, e) ==
  LET seen == [st EXCEPT !.caught = Append(@, e)]
  IN  IF st.attempt < RETRIES
      THEN [seen EXCEPT !.pc = "delay", !.delays = Append(@, 500)]
      ELSE [seen EXCEPT !.pc = "returned", !.ret = Null]

\* the awaited request resolves: return result
safeResolves ==
  /\ output # NoResult /\ output.kind = "safeAnalyze" /\ output.pc = "await"
  /\ input.settles[output.attempt + 1] = "resolved"
  /\ \E r \in EngineResults(input.fen, input.depth) :
       output' = [output EXCEPT !.pc = "returned", !.ret = r]
  /\ UNCHANGED <<input, engineVars, analyzerVars>>

\* the awaited request is rejected
safeRejects ==
  /\ output # NoResult /\ output.kind = "safeAnalyze" /\ output.pc = "await"
  /\ input.settles[output.attempt + 1] # "resolved"
  /\ output' = safeCatch(output, input.settles[output.attempt + 1])
  /\ UNCHANGED <<input, engineVars, analyzerVars>>

\* the delay(500) is over: continue, attempt++, and the next request
safeDelayDone ==
  /\ output # NoResult /\ output.kind = "safeAnalyze" /\ output.pc = "delay"
  /\ output' = [output EXCEPT !.pc = "await", !.attempt = @ + 1,
                              !.requests = @ + 1]
  /\ UNCHANGED <<input, engineVars, analyzerVars>>

InitSafeAnalyze ==
  /\ EngineInit /\ AnalyzerInit /\ Pairing
  /\ analyzerRev = "p006"
  /\ input \in SafeInputs
  /\ output = NoResult

NextSafeAnalyze ==
  \/ safeAnalyze
  \/ safeResolves
  \/ safeRejects
  \/ safeDelayDone

SpecSafeAnalyze == InitSafeAnalyze /\ [][NextSafeAnalyze]_vars

\* ------------------------------------------------------------------ safeAnalyze claims
InSafeAnalyze == output # NoResult /\ output.kind = "safeAnalyze"

\* C27: a not-ready or busy rejection of the Engine Session ends the call of
\* the retry wrapper at once: no delay and no further request follow it, only
\* a timeout is followed by another request.
C27_BusyNotRetried ==
  InSafeAnalyze =>
    \A i \in 1..Len(output.caught) :
      output.caught[i] \in {"Engine not ready", "Engine busy"} =>
        /\ output.pc = "returned"
        /\ output.requests = i
        /\ output.delays = <<>>

\* C28: a call of the retry wrapper makes at most 1 + RETRIES requests, awaits
\* the same delay after each failed attempt but the last, returns the first
\* result it receives, and returns null only when 1 + RETRIES requests failed.
C28_BoundedRetries ==
  InSafeAnalyze =>
    /\ output.requests <= 1 + RETRIES
    /\ Len(output.caught) \in {output.requests - 1, output.requests}
    /\ \A i \in 1..Len(output.delays) : output.delays[i] = output.delays[1]
    /\ output.pc = "returned" =>
         /\ Len(output.delays) = output.requests - 1
         /\ output.ret = Null <=> Len(output.caught) = 1 + RETRIES
         /\ output.ret # Null =>
              /\ Len(output.caught) = output.requests - 1
              /\ input.settles[output.requests] = "resolved"
              /\ \A i \in 1..(output.requests - 1) :
                   input.settles[i] # "resolved"
              /\ output.ret \in EngineResults(input.fen, input.depth)

\* a call that failed twice, waited twice, and succeeded at its third request
C28_Witness ==
  /\ InSafeAnalyze /\ output.pc = "returned"
  /\ output.requests = 1 + RETRIES
  /\ output.ret # Null
  /\ output.delays = <<500, 500>>

\* ------------------------------------------------------------------ analyzeAllMoves on its own
\* The entry points of analyzeAllMoves and its analysing flag, with each
\* analyzeSingleMove reduced to its outcome: it returns (the move is then
\* analysed) or, in part_000, rethrows.
MaxPasses == 2

Passes == 1..MaxPasses

\* the revision of the orchestrator and the number of moves of the game
PassInputs == [rev : {"js", "p000", "p006"}, moves : 1..MaxPlies]

IdlePass == [pc |-> "idle", i |-> 0]

\* "flag" is STATE.isAnalyzing (and this.isAnalyzing of moveAnalyzer.js, set
\* together), "disabled" the Analyze button, "done" the indices with a record
\* in STATE.analysisData, "tests" the testAnalysis() calls in their wait
PassesStart ==
  [kind |-> "passes", flag |-> FALSE, disabled |-> FALSE, done |-> {},
   tests |-> 0, pass |-> [p \in Passes |-> IdlePass]]

InPasses == output # NoResult /\ output.kind = "passes"

\* finally: the flag is cleared and the button enabled
passFinally(st, p) ==
  [st EXCEPT !.flag = FALSE, !.disabled = FALSE, !.pass[p] = IdlePass]

\* the for loop of pass p from index i0: analysed moves are skipped, the
\* first other one is analysed; part_006 returns at once from
\* analyzeSingleMove when the index is under analysis; past the last move the
\* pass ends
passLoop(st, p, i0) ==
  LET todo == {j \in i0..(input.moves - 1) : j \notin st.done}
  IN  IF todo = {} THEN passFinally(st, p)
      ELSE LET j == CHOOSE j \in todo : \A k \in todo : j <= k
               pending == /\ input.rev = "p006"
                          /\ \E q \in Passes \ {p} :
                               st.pass[q] = [pc |-> "await", i |-> j]
           IN  [st EXCEPT !.pass[p] =
                  [pc |-> IF pending THEN "delay" ELSE "await", i |-> j]]

\* analyzeAllMoves() as pass p, up to its first suspension (the game has
\* moves and the engine is ready): only moveAnalyzer.js tests the flag
passEnter(st, p) ==
  IF input.rev = "js" /\ st.flag THEN st
  ELSE passLoop([st EXCEPT !.flag = TRUE, !.disabled = TRUE], p, 0)

\* the first pass not running
FreePass ==
  CHOOSE p \in Passes :
    /\ output.pass[p] = IdlePass
    /\ \A q \in Passes : q < p => output.pass[q] # IdlePass

\* the Analyze button, which does nothing while disabled
analyzeBtn ==
  /\ InPasses
  /\ ~output.disabled
  /\ \E p \in Passes : output.pass[p] = IdlePass
  /\ output' = passEnter(output, FreePass)
  /\ UNCHANGED <<input, engineVars, analyzerVars>>

\* the A key: if (!STATE.isAnalyzing) MoveAnalyzer.analyzeAllMoves()
keydownA ==
  /\ InPasses
  /\ ~output.flag
  /\ \E p \in Passes : output.pass[p] = IdlePass
  /\ output' = passEnter(output, FreePass)
  /\ UNCHANGED <<input, engineVars, analyzerVars>>

\* window.testAnalysis(): loadPGN, which empties STATE.analysisData, and a
\* wait of one second
testAnalysis ==
  /\ InPasses
  /\ output.tests = 0
  /\ output' = [output EXCEPT !.done = {}, !.tests = 1]
  /\ UNCHANGED <<input, engineVars, analyzerVars>>

\* testAnalysis after its wait: await MoveAnalyzer.analyzeAllMoves()
testAnalysisResume ==
  /\ InPasses
  /\ output.tests = 1
  /\ \E p \in Passes : output.pass[p] = IdlePass
  /\ output' = passEnter([output EXCEPT !.tests = 0], FreePass)
  /\ UNCHANGED <<input, engineVars, analyzerVars>>

\* analyzeSingleMove(i) of pass p returns: progress, table, graph, delay
passMoveReturns(p) ==
  /\ InPasses
  /\ output.pass[p].pc = "await"
  /\ output' = [output EXCEPT !.done = @ \cup {output.pass[p].i},
                              !.pass[p].pc = "delay"]
  /\ UNCHANGED <<input, engineVars, analyzerVars>>

\* part_000: analyzeSingleMove(i) rethrows; catch and finally of the pass
passMoveThrows(p) ==
  /\ InPasses
  /\ input.rev = "p000"
  /\ output.pass[p].pc = "await"
  /\ output' = passFinally(output, p)
  /\ UNCHANGED <<input, engineVars, analyzerVars>>

\* the delay between two moves of pass p is over
passDelayDone(p) ==
  /\ InPasses
  /\ output.pass[p].pc = "delay"
  /\ output' = passLoop(output, p, output.pass[p].i + 1)
  /\ UNCHANGED <<input, engineVars, analyzerVars>>

InitPasses ==
  /\ EngineInit /\ AnalyzerInit /\ Pairing
  /\ input \in PassInputs
  /\ output = PassesStart

NextPasses ==
  \/ analyzeBtn
  \/ keydownA
  \/ testAnalysis
  \/ testAnalysisResume
  \/ \E p \in Passes : passMoveReturns(p)
  \/ \E p \in Passes : passMoveThrows(p)
  \/ \E p \in Passes : passDelayDone(p)

SpecPasses == InitPasses /\ [][NextPasses]_vars

\* ------------------------------------------------------------------ analyzeAllMoves claims
Running == {p \in Passes : output.pass[p].pc # "idle"}

\* C37: at most one pass of analyzeAllMoves runs at a time, and the analysing
\* flag is set exactly while a pass runs: it is cleared when the pass ends,
\* by completion or by an error.
C37_OnePassAtATime ==
  InPasses =>
    /\ Cardinality(Running) <= 1
    /\ output.flag <=> Running # {}

\* ------------------------------------------------------------------ BoardManager on its own
\* STATE.game, STATE.moveHistory and STATE.currentMoveIndex under the drops
\* of the board and the navigation functions: "history" is STATE.moveHistory,
\* "game" the moves STATE.game holds since its last reset(), "index"
\* STATE.currentMoveIndex. The input is the game a PGN has loaded.
MaxHistory == 4

BoardInputs == {<<>>} \cup Games

\* the moves Chess.move() accepts in a position
LegalMoves(game) ==
  IF game = <<>> THEN {W1}
  ELSE IF game = <<W1>> THEN {Bq, Bn, Bo}
  ELSE {}

\* STATE.game.move(m): null, and no move made, when m is not legal
gameMove(game, m) == IF m \in LegalMoves(game) THEN Append(game, m) ELSE game

\* "STATE.game.reset(); for (i = 0; i <= index; i++)
\* STATE.game.move(STATE.moveHistory[i])", n = index + 1
RECURSIVE rebuild(_, _)
rebuild(history, n) ==
  IF n <= 0 THEN <<>>
  ELSE gameMove(rebuild(history, n - 1), history[n])

\* after loadPGN: every move made on the game and pushed to the history
BoardStart(g) ==
  [kind |-> "board", history |-> g, game |-> g, index |-> Len(g) - 1]

InBoard == output # NoResult /\ output.kind = "board"

\* onDrop: the move is made on STATE.game, wherever navigation has left it,
\* pushed to the end of the history, and the index set to the last entry. An
\* illegal drop snaps back and changes nothing.
onDropBoard ==
  /\ InBoard
  /\ Len(output.history) < MaxHistory
  /\ \E m \in DropMoves(output.game) :
       output' = [output EXCEPT !.game = gameMove(output.game, m),
                                !.history = Append(output.history, m),
                                !.index = Len(output.history)]
  /\ UNCHANGED <<input, engineVars, analyzerVars>>

goToFirstMove ==
  /\ InBoard
  /\ Len(output.history) # 0
  /\ output' = [output EXCEPT !.game = <<>>, !.index = -1]
  /\ UNCHANGED <<input, engineVars, analyzerVars>>

goToPreviousMove ==
  /\ InBoard
  /\ output.index >= 0
  /\ output' = [output EXCEPT !.index = output.index - 1,
                              !.game = rebuild(output.history, output.index)]
  /\ UNCHANGED <<input, engineVars, analyzerVars>>

goToNextMove ==
  /\ InBoard
  /\ output.index < Len(output.history) - 1
  /\ output' = [output EXCEPT
                  !.index = output.index + 1,
                  !.game = gameMove(output.game,
                                    output.history[output.index + 2])]
  /\ UNCHANGED <<input, engineVars, analyzerVars>>

goToLastMove ==
  /\ InBoard
  /\ Len(output.history) # 0
  /\ output' = [output EXCEPT
                  !.index = Len(output.history) - 1,
                  !.game = rebuild(output.history, Len(output.history))]
  /\ UNCHANGED <<input, engineVars, analyzerVars>>

\* the click on a cell of the PGN table: index is the cell's move
goToMove(index) ==
  /\ InBoard
  /\ index < Len(output.history)
  /\ output' = [output EXCEPT !.index = index,
                              !.game = rebuild(output.history, index + 1)]
  /\ UNCHANGED <<input, engineVars, analyzerVars>>

InitBoard ==
  /\ EngineInit /\ AnalyzerInit /\ Pairing
  /\ input \in BoardInputs
  /\ output = BoardStart(input)

NextBoard ==
  \/ onDropBoard
  \/ goToFirstMove
  \/ goToPreviousMove
  \/ goToNextMove
  \/ goToLastMove
  \/ \E index \in 0..(MaxHistory - 1) : goToMove(index)

SpecBoard == InitBoard /\ [][NextBoard]_vars

\* ------------------------------------------------------------------ BoardManager claims
\* every move of the history is legal in the position its predecessors make
IsLegalGame(history) ==
  \A i \in 1..Len(history) :
    history[i] \in LegalMoves(SubSeq(history, 1, i - 1))

\* C38: after any sequence of drops and navigation operations the index lies
\* in -1..length-1, the position of the board is the replay of the history up
\* to the index, and the history is one legal game from the start position.
C38_HistoryIsOneGame ==
  InBoard =>
    /\ -1 <= output.index /\ output.index < Len(output.history)
    /\ output.game = rebuild(output.history, output.index + 1)
    /\ IsLegalGame(output.history)

====
